---- MODULE Spec2Model ----
(***************************************************************************)
(* A model of ortoolslpparser.parse_lp_file: the two passes over an LP     *)
(* file, the line normaliser, the declaration, objective and constraint    *)
(* parsers, the expression scanner _set_coefficients and the variable      *)
(* bound heuristic.                                                        *)
(*                                                                         *)
(* Program strings are TLA+ strings (sequences of characters); the string  *)
(* methods and regular expressions the code uses are operators computed    *)
(* character by character.  A float is an exact decimal <<"fin", m, e>>    *)
(* (the value m * 10^e, m without trailing zeros) or one of the two        *)
(* infinities; binary rounding of IEEE doubles is not modelled.            *)
(***************************************************************************)
EXTENDS Integers, Sequences, FiniteSets, TLC

(***************************************************************************)
(* Characters and the str methods used by the parser.                      *)
(***************************************************************************)
Whitespace == {" ", "\t", "\n", "\r"}

Digits == {"0", "1", "2", "3", "4", "5", "6", "7", "8", "9"}

Letters ==
  {"a", "b", "c", "d", "e", "f", "g", "h", "i", "j", "k", "l", "m",
   "n", "o", "p", "q", "r", "s", "t", "u", "v", "w", "x", "y", "z",
   "A", "B", "C", "D", "E", "F", "G", "H", "I", "J", "K", "L", "M",
   "N", "O", "P", "Q", "R", "S", "T", "U", "V", "W", "X", "Y", "Z"}

\* s[i:i+1] for the 1-based position i ("" past the end, like a Python slice)
CharAt(s, i) == IF i >= 1 /\ i <= Len(s) THEN SubSeq(s, i, i) ELSE ""

\* s[n:] for n >= 0
Drop(s, n) == IF n >= Len(s) THEN "" ELSE SubSeq(s, n + 1, Len(s))

\* s[:n] for n >= 0
Take(s, n) == IF n >= Len(s) THEN s ELSE SubSeq(s, 1, n)

StartsWith(s, p) == Len(p) <= Len(s) /\ SubSeq(s, 1, Len(p)) = p

RECURSIVE LStrip(_)
LStrip(s) ==
  IF Len(s) > 0 /\ CharAt(s, 1) \in Whitespace THEN LStrip(Drop(s, 1)) ELSE s

RECURSIVE RStrip(_)
RStrip(s) ==
  IF Len(s) > 0 /\ CharAt(s, Len(s)) \in Whitespace
  THEN RStrip(Take(s, Len(s) - 1)) ELSE s

\* str.strip()
Strip(s) == RStrip(LStrip(s))

\* str.find(sub) as a 1-based position of the first occurrence, 0 when absent
\* (Python's find() is this minus one, so "find() == -1" is FindPos = 0)
RECURSIVE FindFrom(_, _, _)
FindFrom(s, sub, i) ==
  IF i + Len(sub) - 1 > Len(s) THEN 0
  ELSE IF SubSeq(s, i, i + Len(sub) - 1) = sub THEN i
  ELSE FindFrom(s, sub, i + 1)

FindPos(s, sub) == FindFrom(s, sub, 1)

\* str.split(sep): every piece between the non-overlapping occurrences of sep
RECURSIVE Split(_, _)
Split(s, sep) ==
  LET At(p) == IF p = 0 THEN <<s>>
               ELSE <<Take(s, p - 1)>> \o Split(Drop(s, p - 1 + Len(sep)), sep)
  IN At(FindPos(s, sep))

\* str.split(sep, maxsplit=1)
SplitOnce(s, sep) ==
  LET At(p) == IF p = 0 THEN <<s>>
               ELSE <<Take(s, p - 1), Drop(s, p - 1 + Len(sep))>>
  IN At(FindPos(s, sep))

\* str.count(sub): the number of non-overlapping occurrences
Count(s, sub) == Len(Split(s, sub)) - 1

\* str.replace(old, new)
RECURSIVE Replace(_, _, _)
Replace(s, old, new) ==
  LET At(p) == IF p = 0 THEN s
               ELSE Take(s, p - 1) \o new \o Replace(Drop(s, p - 1 + Len(old)), old, new)
  IN At(FindPos(s, old))

\* the length of the leading run of characters of s that are in the set cs
RECURSIVE SpanLen(_, _)
SpanLen(s, cs) ==
  IF Len(s) > 0 /\ CharAt(s, 1) \in cs THEN 1 + SpanLen(Drop(s, 1), cs) ELSE 0

\* the length of the leading run of characters of s that are not whitespace
RECURSIVE WordLen(_)
WordLen(s) ==
  IF Len(s) > 0 /\ CharAt(s, 1) \notin Whitespace THEN 1 + WordLen(Drop(s, 1)) ELSE 0

\* str.split(): the whitespace-delimited tokens
RECURSIVE SplitWs(_)
SplitWs(s) ==
  LET Word(t, n) == IF Len(t) = 0 THEN <<>> ELSE <<Take(t, n)>> \o SplitWs(Drop(t, n))
      From(t) == Word(t, WordLen(t))
  IN From(LStrip(s))

\* str.split(maxsplit=1): the first token, then the rest from its first
\* non-whitespace character on (its trailing whitespace is kept)
SplitWsOnce(s) ==
  LET Parts(first, rest) == IF Len(rest) = 0 THEN <<first>> ELSE <<first, rest>>
      Word(t, n) == IF Len(t) = 0 THEN <<>> ELSE Parts(Take(t, n), LStrip(Drop(t, n)))
      From(t) == Word(t, WordLen(t))
  IN From(LStrip(s))

(***************************************************************************)
(* The regular expressions.                                                *)
(***************************************************************************)
\* the length matched by ^[A-Za-z]+[A-Za-z0-9_]* at the start of s, 0 for no match
VarNameStartLen(s) ==
  IF CharAt(s, 1) \in Letters
  THEN SpanLen(s, Letters \cup Digits \cup {"_"})
  ELSE 0

\* re.match(^[A-Za-z]+[A-Za-z0-9_]*$, s)
IsVarNameAll(s) == Len(s) > 0 /\ VarNameStartLen(s) = Len(s)

\* the length matched by ([eE][-+]?\d+)? at the start of s
ExponentLen(s) ==
  LET Of(sg, d) == IF d > 0 THEN 1 + sg + d ELSE 0
      Signed(sg) == Of(sg, SpanLen(Drop(s, 1 + sg), Digits))
  IN IF CharAt(s, 1) \in {"e", "E"}
     THEN Signed(IF CharAt(s, 2) \in {"-", "+"} THEN 1 ELSE 0)
     ELSE 0

\* the length matched by (\d+(\.\d*)?|\.\d+) at the start of s, 0 for no match
MantissaLen(s) ==
  LET Fraction(f) == IF f > 0 THEN 1 + f ELSE 0
      Of(d) == IF d > 0
               THEN IF CharAt(s, d + 1) = "." THEN d + 1 + SpanLen(Drop(s, d + 1), Digits)
                    ELSE d
               ELSE IF CharAt(s, 1) = "." THEN Fraction(SpanLen(Drop(s, 1), Digits))
               ELSE 0
  IN Of(SpanLen(s, Digits))

\* the length matched by ^(\d+(\.\d*)?|\.\d+)([eE][-+]?\d+)? at the start of s,
\* 0 for no match (a match is never empty)
MantissaExpLen(s) ==
  LET Of(m) == IF m = 0 THEN 0 ELSE m + ExponentLen(Drop(s, m))
  IN Of(MantissaLen(s))

\* the length matched by ^[-+] at the start of s
SignLen(s) == IF CharAt(s, 1) \in {"-", "+"} THEN 1 ELSE 0

\* the literal matched without trimming the text first
_is_valid_constant_float_Untrimmed(value) ==
  LET Matches(u, n) == n > 0 /\ n = Len(u)
      Unsigned(u) == Matches(u, MantissaExpLen(u))
      Stripped(v) == Unsigned(Drop(v, SignLen(v)))
  IN Stripped(value)

_is_valid_constant_float(value) ==
  LET Matches(u, n) == n > 0 /\ n = Len(u)
      Unsigned(u) == Matches(u, MantissaExpLen(u))
      Stripped(v) == Unsigned(Drop(v, SignLen(v)))
  IN Stripped(Strip(value))

(***************************************************************************)
(* Floats: <<"fin", m, e>> is m * 10^e with m not divisible by 10 (0 is    *)
(* <<"fin", 0, 0>>); <<"inf", 1, 0>> and <<"inf", -1, 0>> are              *)
(* solver.infinity() and its negation.                                     *)
(***************************************************************************)
RECURSIVE Pow10(_)
Pow10(n) == IF n <= 0 THEN 1 ELSE 10 * Pow10(n - 1)

RECURSIVE Norm(_, _)
Norm(m, e) ==
  IF m = 0 THEN <<"fin", 0, 0>>
  ELSE IF m % 10 = 0 THEN Norm(m \div 10, e + 1)
  ELSE <<"fin", m, e>>

Infinity == <<"inf", 1, 0>>

IsInf(a) == a[1] = "inf"

\* -a
FNeg(a) == <<a[1], 0 - a[2], a[3]>>

\* a + b (the parser never adds two infinities)
FAdd(a, b) ==
  LET At(e) == Norm(a[2] * Pow10(a[3] - e) + b[2] * Pow10(b[3] - e), e)
  IN IF IsInf(a) THEN a
     ELSE IF IsInf(b) THEN b
     ELSE At(IF a[3] < b[3] THEN a[3] ELSE b[3])

\* a - b
FSub(a, b) == FAdd(a, FNeg(b))

\* the number of decimal digits of n > 0
RECURSIVE DigitCount(_)
DigitCount(n) == IF n < 10 THEN 1 ELSE 1 + DigitCount(n \div 10)

\* a < b for positive a and b
FLessPositive(a, b) ==
  LET Aligned(e) == a[2] * Pow10(a[3] - e) < b[2] * Pow10(b[3] - e)
  IN IF IsInf(a) THEN FALSE
     ELSE IF IsInf(b) THEN TRUE
     ELSE IF DigitCount(a[2]) + a[3] # DigitCount(b[2]) + b[3]
     THEN DigitCount(a[2]) + a[3] < DigitCount(b[2]) + b[3]
     ELSE Aligned(IF a[3] < b[3] THEN a[3] ELSE b[3])

\* -1, 0 or 1
FSign(a) == IF a[2] > 0 THEN 1 ELSE IF a[2] < 0 THEN 0 - 1 ELSE 0

\* a < b
FLess(a, b) ==
  IF FSign(a) # FSign(b) THEN FSign(a) < FSign(b)
  ELSE IF FSign(a) = 0 THEN FALSE
  ELSE IF FSign(a) > 0 THEN FLessPositive(a, b)
  ELSE FLessPositive(FNeg(b), FNeg(a))

\* a * b for finite a and b
FMul(a, b) == Norm(a[2] * b[2], a[3] + b[3])

DigitOf(c) ==
  CASE c = "0" -> 0 [] c = "1" -> 1 [] c = "2" -> 2 [] c = "3" -> 3 [] c = "4" -> 4
    [] c = "5" -> 5 [] c = "6" -> 6 [] c = "7" -> 7 [] c = "8" -> 8 [] c = "9" -> 9

\* the value of a string of digits ("" is 0)
RECURSIVE DigitsValue(_)
DigitsValue(s) ==
  IF Len(s) = 0 THEN 0
  ELSE 10 * DigitsValue(Take(s, Len(s) - 1)) + DigitOf(CharAt(s, Len(s)))

\* the value of the exponent suffix x ("" is 0)
ExponentValue(x) ==
  IF Len(x) = 0 THEN 0
  ELSE IF CharAt(x, 2) = "-" THEN 0 - DigitsValue(Drop(x, 2))
  ELSE IF CharAt(x, 2) = "+" THEN DigitsValue(Drop(x, 2))
  ELSE DigitsValue(Drop(x, 1))

\* float(s) for a string the numeric-literal grammar accepts (surrounding
\* whitespace and a leading sign allowed, as float() allows them)
float(s) ==
  LET Value(neg, mant, ex) == Norm(IF neg THEN 0 - mant ELSE mant, ex)
      \* u: the unsigned literal, ni integer digits, dot 0 or 1, nf fraction digits
      Parts(neg, u, ni, dot, nf) ==
        Value(neg,
              DigitsValue(Take(u, ni)) * Pow10(nf)
                + DigitsValue(SubSeq(u, ni + 2, ni + 1 + nf)),
              ExponentValue(Drop(u, ni + dot + nf)) - nf)
      Dotted(neg, u, ni, dot) ==
        Parts(neg, u, ni, dot, IF dot = 1 THEN SpanLen(Drop(u, ni + 1), Digits) ELSE 0)
      Integer(neg, u, ni) == Dotted(neg, u, ni, IF CharAt(u, ni + 1) = "." THEN 1 ELSE 0)
      Unsigned(neg, u) == Integer(neg, u, SpanLen(u, Digits))
      Stripped(v) == Unsigned(CharAt(v, 1) = "-", Drop(v, SignLen(v)))
  IN Stripped(Strip(s))

(***************************************************************************)
(* The solver (pywraplp.Solver) as the parser uses it: the variables in    *)
(* creation order, each [name, lb, ub, integer]; the objective             *)
(* [maximization, coeffs, offset]; the constraint rows in creation order,  *)
(* each [lb, ub, coeffs].  coeffs maps variable names to floats.           *)
(***************************************************************************)
NoError == ""

EmptyCoeffs == [n \in {} |-> Norm(0, 0)]

\* solver.NumVar / solver.IntVar(-solver.infinity(), solver.infinity(), name)
NewVar(name, integer) ==
  [name |-> name, lb |-> FNeg(Infinity), ub |-> Infinity, integer |-> integer]

\* a lookup that never finds the variable
LookupVariable_None(vars, name) == 0

\* solver.LookupVariable(name): the position of the variable, 0 for None
LookupVariable(vars, name) ==
  IF \E i \in 1..Len(vars) : vars[i].name = name
  THEN CHOOSE i \in 1..Len(vars) : vars[i].name = name
  ELSE 0

\* objective_or_constraint.SetCoefficient(var, coefficient)
SetCoefficient(coeffs, name, coefficient) ==
  [n \in DOMAIN coeffs \cup {name} |-> IF n = name THEN coefficient ELSE coeffs[n]]

(***************************************************************************)
(* _retrieve_core_line: [err, core]                                        *)
(***************************************************************************)
\* the terminator looked for before the comment is cut off
_retrieve_core_line_CommentKept(line) ==
  LET Bare(l4) ==
        IF Len(l4) = 0
        THEN [err |-> "ends with semi-colon but is empty otherwise", core |-> ""]
        ELSE [err |-> NoError, core |-> l4]
      Uncommented(l3) ==
        Bare(Strip(IF FindPos(l3, "//") # 0 THEN Split(l3, "//")[1] ELSE l3))
      Cut(l1) ==
        IF Len(l1) = 0 THEN [err |-> NoError, core |-> l1]
        ELSE IF CharAt(l1, Len(l1)) # ";"
        THEN [err |-> "does not end with a semi-colon", core |-> ""]
        ELSE Uncommented(Take(l1, Len(l1) - 1))
  IN Cut(Strip(line))

_retrieve_core_line(line) ==
  LET Bare(l4) ==
        IF Len(l4) = 0
        THEN [err |-> "ends with semi-colon but is empty otherwise", core |-> ""]
        ELSE [err |-> NoError, core |-> l4]
      Cut(l3) ==
        IF Len(l3) = 0 THEN [err |-> NoError, core |-> l3]
        ELSE IF CharAt(l3, Len(l3)) # ";"
        THEN [err |-> "does not end with a semi-colon", core |-> ""]
        ELSE Bare(Strip(Take(l3, Len(l3) - 1)))
      Stripped(l1) == Cut(Strip(IF FindPos(l1, "//") # 0 THEN Split(l1, "//")[1] ELSE l1))
  IN Stripped(Strip(line))

(***************************************************************************)
(* _parse_declaration.  P is the parse state [vars, objective,             *)
(* constraints, var_names, err]; what was registered before a failing name *)
(* stays registered.                                                       *)
(***************************************************************************)
\* a declared name registered without looking whether it was declared before
DeclareOne_Redeclared(P, clean_var) ==
  IF ~IsVarNameAll(clean_var)
  THEN [P EXCEPT !.err = "Non-permitted variable name"]
  ELSE [P EXCEPT !.var_names = @ \cup {clean_var},
                 !.vars = Append(@, NewVar(clean_var, TRUE))]

\* a declared name registered as a continuous variable
DeclareOne_Continuous(P, clean_var) ==
  IF ~IsVarNameAll(clean_var)
  THEN [P EXCEPT !.err = "Non-permitted variable name"]
  ELSE IF clean_var \in P.var_names
  THEN [P EXCEPT !.err = "declared again"]
  ELSE [P EXCEPT !.var_names = @ \cup {clean_var},
                 !.vars = Append(@, NewVar(clean_var, FALSE))]

\* lines 74-80: one name of the list; the parse state after it
DeclareOne(P, clean_var) ==
  IF ~IsVarNameAll(clean_var)
  THEN [P EXCEPT !.err = "Non-permitted variable name"]
  ELSE IF clean_var \in P.var_names
  THEN [P EXCEPT !.err = "declared again"]
  ELSE [P EXCEPT !.var_names = @ \cup {clean_var},
                 !.vars = Append(@, NewVar(clean_var, TRUE))]

\* lines 73-80: the loop over the names
RECURSIVE DeclareEach(_, _)
DeclareEach(P, spl_variables) ==
  IF Len(spl_variables) = 0 \/ P.err # NoError THEN P
  ELSE DeclareEach(DeclareOne(P, Strip(Head(spl_variables))), Tail(spl_variables))

_parse_declaration(P, core_line) ==
  LET Parts(spl_whitespace) ==
        IF spl_whitespace[1] # "int"
        THEN [P EXCEPT !.err = "Declaration should start with int"]
        ELSE IF Len(spl_whitespace) # 2
        THEN [P EXCEPT !.err = "Declaration has no variables"]
        ELSE DeclareEach(P, Split(spl_whitespace[2], ","))
  IN Parts(SplitWsOnce(core_line))

(***************************************************************************)
(* _set_coefficients.  The scan state is [remainder, coeffs, vars,         *)
(* var_names, var_names_found, running_constant_sum,                       *)
(* had_at_least_one_variable, err]; coeffs are the coefficients of the     *)
(* objective or constraint being filled.                                   *)
(***************************************************************************)
\* lines 98-104: the combination sign; [coefficient, remainder]
CombinationSign(remainder) ==
  IF SignLen(remainder) = 1
  THEN [coefficient |-> IF CharAt(remainder, 1) = "-" THEN Norm(-1, 0) ELSE Norm(1, 0),
        remainder |-> Strip(Drop(remainder, 1))]
  ELSE [coefficient |-> Norm(1, 0), remainder |-> remainder]

\* the real sign consumed without negating the coefficient
RealSign_NotApplied(c) ==
  IF SignLen(c.remainder) = 1
  THEN [coefficient |-> c.coefficient, remainder |-> Drop(c.remainder, 1)]
  ELSE c

\* the real sign with the whitespace after it skipped
RealSign_Stripped(c) ==
  IF SignLen(c.remainder) = 1
  THEN [coefficient |-> IF CharAt(c.remainder, 1) = "-"
                        THEN FMul(c.coefficient, Norm(-1, 0)) ELSE c.coefficient,
        remainder |-> Strip(Drop(c.remainder, 1))]
  ELSE c

\* lines 106-111: the real sign, directly in front of the mantissa
RealSign(c) ==
  IF SignLen(c.remainder) = 1
  THEN [coefficient |-> IF CharAt(c.remainder, 1) = "-"
                        THEN FMul(c.coefficient, Norm(-1, 0)) ELSE c.coefficient,
        remainder |-> Drop(c.remainder, 1)]
  ELSE c

\* lines 113-122: mantissa and exponent; [coefficient, remainder, matched,
\* whitespace_after]
MantissaExp(c) ==
  LET After(rest, stripped_remainder, value) ==
        [coefficient |-> FMul(c.coefficient, value),
         remainder |-> stripped_remainder,
         matched |-> TRUE,
         whitespace_after |-> Len(rest) # Len(stripped_remainder)]
      Rest(rest, value) == After(rest, Strip(rest), value)
      Match(n) ==
        IF n > 0 THEN Rest(Drop(c.remainder, n), float(Take(c.remainder, n)))
        ELSE [coefficient |-> c.coefficient, remainder |-> c.remainder,
              matched |-> FALSE, whitespace_after |-> FALSE]
  IN Match(MantissaExpLen(c.remainder))

\* lines 163-165: the start of the message, with the character that follows the
\* element
UnexpectedNextCharacter(remainder) ==
  "Unexpected next character \"" \o CharAt(remainder, 1) \o "\""

\* an element followed by anything
NextCharUnexpected_Never(remainder, whitespace_after) == FALSE

\* lines 158-166: whether what follows an element is neither whitespace, nor a
\* combination sign, nor the end
NextCharUnexpected(remainder, whitespace_after) ==
  /\ Len(remainder) # 0
  /\ ~whitespace_after
  /\ CharAt(remainder, 1) # "-"
  /\ CharAt(remainder, 1) # "+"

\* the element carries a variable, and the name is looked up among the names of
\* the whole file
VariableTerm_FileWide(st, m, n) ==
  LET Checked(set, rest) ==
        IF NextCharUnexpected(set.remainder, Len(rest) # Len(set.remainder))
        THEN [set EXCEPT !.err = UnexpectedNextCharacter(set.remainder)]
        ELSE set
      Named(clean_var, rest) ==
        IF clean_var \in st.var_names
        THEN [st EXCEPT !.had_at_least_one_variable = TRUE,
                        !.err = "found more than once"]
        ELSE Checked([st EXCEPT
                        !.had_at_least_one_variable = TRUE,
                        !.var_names = @ \cup {clean_var},
                        !.var_names_found = @ \cup {clean_var},
                        !.vars = IF LookupVariable(@, clean_var) = 0
                                 THEN Append(@, NewVar(clean_var, FALSE)) ELSE @,
                        !.coeffs = SetCoefficient(@, clean_var, m.coefficient),
                        !.remainder = Strip(rest)],
                     rest)
  IN Named(Take(m.remainder, n), Drop(m.remainder, n))

\* the element carries a variable, and a variable the solver holds is replaced
\* by a new one of its name
VariableTerm_Reset(st, m, n) ==
  LET Checked(set, rest) ==
        IF NextCharUnexpected(set.remainder, Len(rest) # Len(set.remainder))
        THEN [set EXCEPT !.err = UnexpectedNextCharacter(set.remainder)]
        ELSE set
      Named(clean_var, rest) ==
        IF clean_var \in st.var_names_found
        THEN [st EXCEPT !.had_at_least_one_variable = TRUE,
                        !.var_names = @ \cup {clean_var},
                        !.err = "found more than once"]
        ELSE Checked([st EXCEPT
                        !.had_at_least_one_variable = TRUE,
                        !.var_names = @ \cup {clean_var},
                        !.var_names_found = @ \cup {clean_var},
                        !.vars = IF LookupVariable(@, clean_var) = 0
                                 THEN Append(@, NewVar(clean_var, FALSE))
                                 ELSE [@ EXCEPT ![LookupVariable(@, clean_var)] =
                                                  NewVar(clean_var, FALSE)],
                        !.coeffs = SetCoefficient(@, clean_var, m.coefficient),
                        !.remainder = Strip(rest)],
                     rest)
  IN Named(Take(m.remainder, n), Drop(m.remainder, n))

\* lines 126-150 and 162: the element carries a variable; m is the element read so
\* far, n the length of the name
VariableTerm(st, m, n) ==
  LET Checked(set, rest) ==
        IF NextCharUnexpected(set.remainder, Len(rest) # Len(set.remainder))
        THEN [set EXCEPT !.err = UnexpectedNextCharacter(set.remainder)]
        ELSE set
      Named(clean_var, rest) ==
        IF clean_var \in st.var_names_found
        THEN [st EXCEPT !.had_at_least_one_variable = TRUE,
                        !.var_names = @ \cup {clean_var},
                        !.err = "found more than once"]
        ELSE Checked([st EXCEPT
                        !.had_at_least_one_variable = TRUE,
                        !.var_names = @ \cup {clean_var},
                        !.var_names_found = @ \cup {clean_var},
                        !.vars = IF LookupVariable(@, clean_var) = 0
                                 THEN Append(@, NewVar(clean_var, FALSE)) ELSE @,
                        !.coeffs = SetCoefficient(@, clean_var, m.coefficient),
                        !.remainder = Strip(rest)],
                     rest)
  IN Named(Take(m.remainder, n), Drop(m.remainder, n))

\* a numeral without a variable replacing the constant instead of adding to it
ConstantTerm_Replacing(st, m) ==
  IF NextCharUnexpected(m.remainder, m.whitespace_after)
  THEN [st EXCEPT !.running_constant_sum = m.coefficient,
                  !.remainder = m.remainder,
                  !.err = UnexpectedNextCharacter(m.remainder)]
  ELSE [st EXCEPT !.running_constant_sum = m.coefficient,
                  !.remainder = m.remainder]

\* lines 155-156 and 162: a numeral without a variable adds to the constant
ConstantTerm(st, m) ==
  IF NextCharUnexpected(m.remainder, m.whitespace_after)
  THEN [st EXCEPT !.running_constant_sum = FAdd(@, m.coefficient),
                  !.remainder = m.remainder,
                  !.err = UnexpectedNextCharacter(m.remainder)]
  ELSE [st EXCEPT !.running_constant_sum = FAdd(@, m.coefficient),
                  !.remainder = m.remainder]

\* one iteration of the while loop, going on when nothing was matched
ScanElement_Lenient(st) ==
  LET Name(m, n) ==
        IF n > 0 THEN VariableTerm(st, m, n)
        ELSE IF ~m.matched
        THEN [st EXCEPT !.remainder = m.remainder]
        ELSE ConstantTerm(st, m)
      Element(m) == Name(m, VarNameStartLen(m.remainder))
  IN Element(MantissaExp(RealSign(CombinationSign(st.remainder))))

\* lines 96-166: one iteration of the while loop
ScanElement(st) ==
  LET Name(m, n) ==
        IF n > 0 THEN VariableTerm(st, m, n)
        ELSE IF ~m.matched
        THEN [st EXCEPT !.remainder = m.remainder,
                        !.err = "Cannot process remainder coefficients"]
        ELSE ConstantTerm(st, m)
      Element(m) == Name(m, VarNameStartLen(m.remainder))
  IN Element(MantissaExp(RealSign(CombinationSign(st.remainder))))

RECURSIVE ScanLoop(_)
ScanLoop(st) ==
  IF st.err # NoError \/ Len(st.remainder) = 0 THEN st ELSE ScanLoop(ScanElement(st))

\* the end of the scan without the test for a variable
ScanEnd_Unchecked(end) == end

\* lines 168-172: after the loop
ScanEnd(end) ==
  IF end.err = NoError /\ ~end.had_at_least_one_variable
  THEN [end EXCEPT !.err = "Not a single variable present in the coefficients"]
  ELSE end

\* lines 86-94: before the loop
ScanStart(vars, var_names, coeffs, remainder) ==
  [remainder |-> remainder,
   coeffs |-> coeffs,
   vars |-> vars,
   var_names |-> var_names,
   var_names_found |-> {},
   running_constant_sum |-> Norm(0, 0),
   had_at_least_one_variable |-> FALSE,
   err |-> IF Len(remainder) = 0 THEN "No variables present in equation" ELSE NoError]

\* the scan state in which _set_coefficients ends
_set_coefficients(vars, var_names, coeffs, coefficient_part) ==
  LET From(start) == IF start.err # NoError THEN start ELSE ScanEnd(ScanLoop(start))
  IN From(ScanStart(vars, var_names, coeffs, Strip(coefficient_part)))

(***************************************************************************)
(* The bound heuristic: the variables after the attempt.                   *)
(***************************************************************************)
SetLb(vars, name, value) ==
  [i \in 1..Len(vars) |-> IF vars[i].name = name THEN [vars[i] EXCEPT !.lb = value]
                          ELSE vars[i]]

\* the upper bound set only when it is below the one the variable has
SetUb_Tightened(vars, name, value) ==
  [i \in 1..Len(vars) |-> IF vars[i].name = name /\ FLess(value, vars[i].ub)
                          THEN [vars[i] EXCEPT !.ub = value]
                          ELSE vars[i]]

SetUb(vars, name, value) ==
  [i \in 1..Len(vars) |-> IF vars[i].name = name THEN [vars[i] EXCEPT !.ub = value]
                          ELSE vars[i]]

\* the one-sided heuristic writing the literal onto the other bound
_attempt_to_improve_var_bounds_one_hs_Swapped(vars, coefficient_part, is_leq, right_hand_side) ==
  LET Attempt(name) ==
        IF IsVarNameAll(name)
        THEN IF is_leq THEN SetLb(vars, name, float(right_hand_side))
             ELSE SetUb(vars, name, float(right_hand_side))
        ELSE vars
  IN Attempt(Strip(coefficient_part))

_attempt_to_improve_var_bounds_one_hs(vars, coefficient_part, is_leq, right_hand_side) ==
  LET Attempt(name) ==
        IF IsVarNameAll(name)
        THEN IF is_leq THEN SetUb(vars, name, float(right_hand_side))
             ELSE SetLb(vars, name, float(right_hand_side))
        ELSE vars
  IN Attempt(Strip(coefficient_part))

\* the two-sided heuristic taking the name the body starts with
_attempt_to_improve_var_bounds_two_hs_Start(vars, coefficient_part, is_leq, left_hand_side, right_hand_side) ==
  LET Both(name, lb, ub) == SetUb(SetLb(vars, name, lb), name, ub)
      Attempt(body) ==
        IF VarNameStartLen(body) > 0
        THEN IF is_leq
             THEN Both(Take(body, VarNameStartLen(body)),
                       float(left_hand_side), float(right_hand_side))
             ELSE Both(Take(body, VarNameStartLen(body)),
                       float(right_hand_side), float(left_hand_side))
        ELSE vars
  IN Attempt(Strip(coefficient_part))

_attempt_to_improve_var_bounds_two_hs(vars, coefficient_part, is_leq, left_hand_side, right_hand_side) ==
  LET Both(name, lb, ub) == SetUb(SetLb(vars, name, lb), name, ub)
      Attempt(name) ==
        IF IsVarNameAll(name)
        THEN IF is_leq THEN Both(name, float(left_hand_side), float(right_hand_side))
             ELSE Both(name, float(right_hand_side), float(left_hand_side))
        ELSE vars
  IN Attempt(Strip(coefficient_part))

(***************************************************************************)
(* _parse_objective_function                                               *)
(***************************************************************************)
\* the parse state after a scan: the variables it created and the names it
\* added stay, also when the scan failed
AfterScan(P, sc) ==
  [P EXCEPT !.vars = sc.vars, !.var_names = sc.var_names, !.err = sc.err]

\* lines 217-218: the coefficients and the offset of the objective
ObjectiveScanned(P, sc) ==
  IF sc.err # NoError
  THEN [AfterScan(P, sc) EXCEPT !.objective.coeffs = sc.coeffs]
  ELSE [AfterScan(P, sc) EXCEPT !.objective.coeffs = sc.coeffs,
                                !.objective.offset = sc.running_constant_sum]

\* the direction compared after trimming it
_parse_objective_function_Trimmed(P, core_line) ==
  LET Parts(spl_colon) ==
        IF Len(spl_colon) = 1
        THEN [P EXCEPT !.err = "Objective function must start with max: or min:"]
        ELSE IF Strip(spl_colon[1]) # "max" /\ Strip(spl_colon[1]) # "min"
        THEN [P EXCEPT !.err = "Objective function must start with max: or min:"]
        ELSE ObjectiveScanned(
               [P EXCEPT !.objective.maximization = (Strip(spl_colon[1]) = "max")],
               _set_coefficients(P.vars, P.var_names, P.objective.coeffs,
                                 Strip(spl_colon[2])))
  IN Parts(SplitOnce(core_line, ":"))

_parse_objective_function(P, core_line) ==
  LET Parts(spl_colon) ==
        IF Len(spl_colon) = 1
        THEN [P EXCEPT !.err = "Objective function must start with max: or min:"]
        ELSE IF spl_colon[1] # "max" /\ spl_colon[1] # "min"
        THEN [P EXCEPT !.err = "Objective function must start with max: or min:"]
        ELSE ObjectiveScanned(
               [P EXCEPT !.objective.maximization = (spl_colon[1] = "max")],
               _set_coefficients(P.vars, P.var_names, P.objective.coeffs,
                                 Strip(spl_colon[2])))
  IN Parts(SplitOnce(core_line, ":"))

(***************************************************************************)
(* _parse_constraint                                                       *)
(***************************************************************************)
\* the new row put before the rows the solver holds
RowScanned_Prepended(P, lb, ub, sc, adjust_lb, adjust_ub) ==
  [AfterScan(P, sc) EXCEPT !.constraints =
     <<[lb |-> IF sc.err = NoError /\ adjust_lb
               THEN FSub(lb, sc.running_constant_sum) ELSE lb,
        ub |-> IF sc.err = NoError /\ adjust_ub
               THEN FSub(ub, sc.running_constant_sum) ELSE ub,
        coeffs |-> sc.coeffs]>> \o @]

\* the row after the scan sc: the SetLb / SetUb that fold the constant out of the
\* bounds the branch adjusts happen only when the scan succeeded
RowScanned(P, lb, ub, sc, adjust_lb, adjust_ub) ==
  [AfterScan(P, sc) EXCEPT !.constraints =
     Append(@, [lb |-> IF sc.err = NoError /\ adjust_lb
                       THEN FSub(lb, sc.running_constant_sum) ELSE lb,
                ub |-> IF sc.err = NoError /\ adjust_ub
                       THEN FSub(ub, sc.running_constant_sum) ELSE ub,
                coeffs |-> sc.coeffs])]

\* solver.Constraint(lb, ub), then _set_coefficients on the new row, then the
\* adjustment of its bounds
ConstraintRow(P, lb, ub, coefficient_part, adjust_lb, adjust_ub) ==
  RowScanned(P, lb, ub,
             _set_coefficients(P.vars, P.var_names, EmptyCoeffs, coefficient_part),
             adjust_lb, adjust_ub)

\* the heuristic of a two-sided branch, unless the row failed
ImproveTwo(R, coefficient_part, is_leq, left_hand_side, right_hand_side) ==
  IF R.err # NoError THEN R
  ELSE [R EXCEPT !.vars = _attempt_to_improve_var_bounds_two_hs(
                            @, coefficient_part, is_leq, left_hand_side, right_hand_side)]

\* the heuristic of a one-sided branch, unless the row failed
ImproveOne(R, coefficient_part, is_leq, right_hand_side) ==
  IF R.err # NoError THEN R
  ELSE [R EXCEPT !.vars = _attempt_to_improve_var_bounds_one_hs(
                            @, coefficient_part, is_leq, right_hand_side)]

\* the equality branch reading its first two parts, however many there are
ConstraintEquality_FirstParts(P, constraint_part) ==
  LET Parts(equality_spl) ==
        IF ~_is_valid_constant_float(equality_spl[2])
        THEN [P EXCEPT !.err = "Right hand side of equality constraint is not a float"]
        ELSE ImproveTwo(ConstraintRow(P, float(equality_spl[2]), float(equality_spl[2]),
                                      equality_spl[1], TRUE, TRUE),
                        equality_spl[1], TRUE, equality_spl[2], equality_spl[2])
  IN Parts(Split(constraint_part, "="))

\* lines 231-243
ConstraintEquality(P, constraint_part) ==
  LET Parts(equality_spl) ==
        IF Len(equality_spl) > 2
        THEN [P EXCEPT !.err = "Equality constraint has multiple equal signs"]
        ELSE IF ~_is_valid_constant_float(equality_spl[2])
        THEN [P EXCEPT !.err = "Right hand side of equality constraint is not a float"]
        ELSE ImproveTwo(ConstraintRow(P, float(equality_spl[2]), float(equality_spl[2]),
                                      equality_spl[1], TRUE, TRUE),
                        equality_spl[1], TRUE, equality_spl[2], equality_spl[2])
  IN Parts(Split(constraint_part, "="))

\* the ascending two-sided branch refusing a lower bound above the upper bound
ConstraintLtLt_Ordered(P, constraint_part) ==
  LET Parts(spl) ==
        IF ~_is_valid_constant_float(spl[1])
        THEN [P EXCEPT !.err = "Left hand side of inequality constraint is not a float"]
        ELSE IF ~_is_valid_constant_float(spl[3])
        THEN [P EXCEPT !.err = "Right hand side of inequality constraint is not a float"]
        ELSE IF FLess(float(spl[3]), float(spl[1]))
        THEN [P EXCEPT !.err = "Lower bound exceeds upper bound"]
        ELSE ImproveTwo(ConstraintRow(P, float(spl[1]), float(spl[3]), spl[2], TRUE, TRUE),
                        spl[2], TRUE, spl[1], spl[3])
  IN Parts(Split(constraint_part, "<"))

\* lines 252-266: lower bound < ... < upper bound
ConstraintLtLt(P, constraint_part) ==
  LET Parts(spl) ==
        IF ~_is_valid_constant_float(spl[1])
        THEN [P EXCEPT !.err = "Left hand side of inequality constraint is not a float"]
        ELSE IF ~_is_valid_constant_float(spl[3])
        THEN [P EXCEPT !.err = "Right hand side of inequality constraint is not a float"]
        ELSE ImproveTwo(ConstraintRow(P, float(spl[1]), float(spl[3]), spl[2], TRUE, TRUE),
                        spl[2], TRUE, spl[1], spl[3])
  IN Parts(Split(constraint_part, "<"))

\* the descending two-sided branch handing its literals to the heuristic as
\* the ascending branch does
ConstraintGtGt_Ascending(P, constraint_part) ==
  LET Parts(spl) ==
        IF ~_is_valid_constant_float(spl[1])
        THEN [P EXCEPT !.err = "Left hand side of inequality constraint is not a float"]
        ELSE IF ~_is_valid_constant_float(spl[3])
        THEN [P EXCEPT !.err = "Right hand side of inequality constraint is not a float"]
        ELSE ImproveTwo(ConstraintRow(P, float(spl[3]), float(spl[1]), spl[2], TRUE, TRUE),
                        spl[2], TRUE, spl[1], spl[3])
  IN Parts(Split(constraint_part, ">"))

\* lines 269-283: upper bound > ... > lower bound
ConstraintGtGt(P, constraint_part) ==
  LET Parts(spl) ==
        IF ~_is_valid_constant_float(spl[1])
        THEN [P EXCEPT !.err = "Left hand side of inequality constraint is not a float"]
        ELSE IF ~_is_valid_constant_float(spl[3])
        THEN [P EXCEPT !.err = "Right hand side of inequality constraint is not a float"]
        ELSE ImproveTwo(ConstraintRow(P, float(spl[3]), float(spl[1]), spl[2], TRUE, TRUE),
                        spl[2], FALSE, spl[1], spl[3])
  IN Parts(Split(constraint_part, ">"))

\* lines 286-295: ... < upper bound
ConstraintLt(P, constraint_part) ==
  LET Parts(spl) ==
        IF ~_is_valid_constant_float(spl[2])
        THEN [P EXCEPT !.err = "Right hand side of inequality constraint is not a float"]
        ELSE ImproveOne(ConstraintRow(P, FNeg(Infinity), float(spl[2]), spl[1],
                                      FALSE, TRUE),
                        spl[1], TRUE, spl[2])
  IN Parts(Split(constraint_part, "<"))

\* ConstraintGt with the constant left in the lower bound
ConstraintGt_ConstantKept(P, constraint_part) ==
  LET Parts(spl) ==
        IF ~_is_valid_constant_float(spl[2])
        THEN [P EXCEPT !.err = "Right hand side of inequality constraint is not a float"]
        ELSE ImproveOne(ConstraintRow(P, float(spl[2]), Infinity, spl[1], FALSE, FALSE),
                        spl[1], FALSE, spl[2])
  IN Parts(Split(constraint_part, ">"))

\* lines 298-307: ... > lower bound
ConstraintGt(P, constraint_part) ==
  LET Parts(spl) ==
        IF ~_is_valid_constant_float(spl[2])
        THEN [P EXCEPT !.err = "Right hand side of inequality constraint is not a float"]
        ELSE ImproveOne(ConstraintRow(P, float(spl[2]), Infinity, spl[1], TRUE, FALSE),
                        spl[1], FALSE, spl[2])
  IN Parts(Split(constraint_part, ">"))

\* lines 249-315: the inequality constraints
ConstraintInequality(P, constraint_part) ==
  LET Signs(c, lt, gt) ==
        IF lt = 2 THEN ConstraintLtLt(P, c)
        ELSE IF gt = 2 THEN ConstraintGtGt(P, c)
        ELSE IF lt = 1 THEN ConstraintLt(P, c)
        ELSE IF gt = 1 THEN ConstraintGt(P, c)
        ELSE IF gt = 0 /\ lt = 0
        THEN [P EXCEPT !.err = "No (in)equality sign present for constraint"]
        ELSE [P EXCEPT !.err = "Too many (in)equality signs present for constraint"]
      Replaced(c) == Signs(c, Count(c, "<"), Count(c, ">"))
  IN Replaced(Replace(Replace(constraint_part, "<=", "<"), ">=", ">"))

_parse_constraint(P, core_line) ==
  LET Part(constraint_part) ==
        IF /\ FindPos(constraint_part, "=") # 0
           /\ FindPos(constraint_part, "<=") = 0
           /\ FindPos(constraint_part, ">=") = 0
        THEN ConstraintEquality(P, constraint_part)
        ELSE ConstraintInequality(P, constraint_part)
      Parts(spl_colon) == Part(IF Len(spl_colon) > 1 THEN Strip(spl_colon[2]) ELSE core_line)
  IN Parts(SplitOnce(core_line, ":"))

(***************************************************************************)
(* The input files.  A file is a sequence of statements; a statement is    *)
(* described by its parts and rendered to the line of text the parser      *)
(* reads.  The parser sees only the rendered text.                         *)
(***************************************************************************)
\* one element of an expression: separator, combination sign, whitespace after
\* it, real sign, numeral, whitespace after it, variable name
Term(sep, comb, gap, real, num, ws, var) ==
  [sep |-> sep, comb |-> comb, gap |-> gap, real |-> real, num |-> num, ws |-> ws,
   var |-> var]

RenderTerm(t) == t.sep \o t.comb \o t.gap \o t.real \o t.num \o t.ws \o t.var

RECURSIVE RenderTerms(_)
RenderTerms(terms) ==
  IF Len(terms) = 0 THEN "" ELSE RenderTerm(Head(terms)) \o RenderTerms(Tail(terms))

RECURSIVE Join(_, _)
Join(parts, sep) ==
  IF Len(parts) = 0 THEN ""
  ELSE IF Len(parts) = 1 THEN parts[1]
  ELSE parts[1] \o sep \o Join(Tail(parts), sep)

\* kind: "objective" (head is the direction), "constraint" (head is the label),
\* "declaration" (names) or "blank"; colon is the text that ends the head
Statement(kind, lead, head, colon, left, rel1, terms, rel2, right, pad, names, tail) ==
  [kind |-> kind, lead |-> lead, head |-> head, colon |-> colon, left |-> left,
   rel1 |-> rel1,
   terms |-> terms, rel2 |-> rel2, right |-> right, pad |-> pad, names |-> names,
   tail |-> tail]

\* the text of the statement before its terminator and comment
Content(s) ==
  s.head \o s.colon
  \o (IF s.rel1 # "" THEN s.left \o s.pad \o s.rel1 \o s.pad ELSE "")
  \o RenderTerms(s.terms)
  \o (IF s.rel2 # "" THEN s.pad \o s.rel2 \o s.pad \o s.right ELSE "")
  \o (IF s.kind = "declaration" THEN "int " \o Join(s.names, ", ") ELSE "")

Render(s) == s.lead \o Content(s) \o s.tail \o "\n"

RenderFile(f) == [i \in 1..Len(f) |-> Render(f[i])]

\* the sequences over S of lengths lo..hi
SeqsOf(S, lo, hi) == UNION {[1..k -> S] : k \in lo..hi}

Objective(head, colon, terms) ==
  Statement("objective", "", head, colon, "", "", terms, "", "", "", <<>>, ";")

OneSided(head, colon, terms, rel, right, pad) ==
  Statement("constraint", "", head, colon, "", "", terms, rel, right, pad, <<>>, ";")

TwoSided(head, colon, left, rel1, terms, rel2, right, pad) ==
  Statement("constraint", "", head, colon, left, rel1, terms, rel2, right, pad, <<>>, ";")

Declaration(names) ==
  Statement("declaration", "", "", "", "", "", <<>>, "", "", "", names, ";")

\* a statement with other whitespace in front and another ending
Dressed(s, lead, tail) == [s EXCEPT !.lead = lead, !.tail = tail]

Var(name) == Term("", "", "", "", "", "", name)

MaxTerms == 2
MaxConstraints == 2
MaxDeclarations == 2
MaxLines == 3

\* an element is written so that the scanner reads it as one element
TermWellFormed(t) ==
  /\ t.comb = "" => t.gap = ""
  /\ (t.num = "" \/ t.var = "") => t.ws = ""
  /\ t.num # "" \/ t.var # ""

\* a later element is set off by whitespace or by a combination sign, and a
\* bare name does not follow a constant (the constant would be its coefficient)
Separated(terms) ==
  \A i \in 2..Len(terms) :
    /\ terms[i].sep = " " \/ terms[i].comb # ""
    /\ ~(/\ terms[i - 1].var = ""
         /\ terms[i].comb = "" /\ terms[i].real = "" /\ terms[i].num = "")

FirstTerms ==
  {t \in [sep : {""}, comb : {"", "+", "-"}, gap : {"", " "}, real : {"", "+", "-"},
          num : {"", "3", "0.1", "3e8"}, ws : {"", " "}, var : {"", "x1", "x2"}] :
     TermWellFormed(t)}

FewFirstTerms ==
  {t \in [sep : {""}, comb : {"", "-"}, gap : {""}, real : {""},
          num : {"", "3"}, ws : {""}, var : {"", "x1"}] : TermWellFormed(t)}

NextTerms ==
  {t \in [sep : {"", " "}, comb : {"", "+", "-"}, gap : {"", " "}, real : {"", "-"},
          num : {"", "0.1"}, ws : {""}, var : {"", "x1", "x2"}] :
     /\ TermWellFormed(t)
     /\ <<t.sep, t.comb, t.gap>> \in {<<" ", "", "">>, <<"", "+", "">>, <<" ", "-", " ">>}
     /\ t.num = "" \/ t.var # "x1"}

\* the expressions the tests and the documentation use
ExampleExpressions ==
  {<<Term("", "-", "", "-", "", "", "x1"), Term(" ", "+", " ", "+", "", "", "x2"),
     Term("", "+", "", "", "1", "", ""), Term("", "-", "", "-", "1", "", "")>>,
   <<Term("", "", "", "", "33.3", "", ""), Term(" ", "", "", "", "3", "", "x1"),
     Term(" ", "+", " ", "", "", "", "x2")>>,
   <<Term("", "+", "", "-", "0.1", "", "x1"), Term(" ", "+", " ", "", "0.3", " ", "x2")>>,
   <<Term("", "-", "", "", "", "", "x1"), Term(" ", "-", " ", "-", "", "", "x2")>>}

\* the term sequences of the expression family
Expressions ==
  {<<t>> : t \in FirstTerms}
  \cup {e \in UNION {{<<t>> \o r : r \in SeqsOf(NextTerms, 1, MaxTerms - 1)} :
                     t \in FewFirstTerms} : Separated(e)}
  \cup ExampleExpressions

\* files of one objective statement, over all expressions
ExpressionFiles == {<<Objective("max", ": ", e)>> : e \in Expressions}

\* the constraint family: one objective, then one constraint statement over
\* every shape, body, bound literal, padding and label
Bodies ==
  {<<Var("x1")>>, <<Var("x2")>>,
   <<Term("", "", "", "", "2", "", "x1")>>,
   <<Term("", "-", "", "", "", "", "x1")>>,
   <<Var("x1"), Term(" ", "+", " ", "", "3", "", "")>>,
   <<Term("", "", "", "", "0.1", " ", "x1"), Term(" ", "-", " ", "", "3", "", ""),
     Term("", "+", "", "", "", "", "x2")>>,
   <<Term("", "", "", "", "3", "", "")>>,
   <<>>}

Literals == {"3", "-2.5", "30.6"}

LiteralPairs == {<<"0", "30.6">>, <<"3", "-2.5">>, <<"-2.5", "3">>}

Labels == {<<"", "">>, <<"c1", ": ">>}

OneSidedStatements ==
  {OneSided(h[1], h[2], b, rel, lit, pad) :
     h \in Labels, b \in Bodies, rel \in {"=", "<=", "<", ">=", ">"},
     lit \in Literals, pad \in {"", " "}}

TwoSidedStatements ==
  {TwoSided(h[1], h[2], lp[1], r[1], b, r[2], lp[2], pad) :
     h \in Labels, b \in Bodies, lp \in LiteralPairs, pad \in {"", " "},
     r \in ({"<=", "<"} \X {"<=", "<"}) \cup ({">=", ">"} \X {">=", ">"})}

ConstraintFiles ==
  {<<Objective("max", ": ", <<Var("x1")>>), c>> :
     c \in OneSidedStatements \cup TwoSidedStatements}

\* the objective family: every way of writing the direction
ObjectiveFiles ==
  {<<Dressed(Objective(h[1], h[2], e), lead, ";")>> :
     h \in {<<"max", ":">>, <<"min", ":">>, <<"max", ": ">>, <<"max ", ":">>,
            <<"max", "">>, <<"mix", ":">>, <<"MAX", ":">>, <<"", ":">>,
            <<"maximise", ": ">>},
     e \in {<<Var("x1")>>, <<Term("", "", "", "", "3", " ", "x1"),
                            Term(" ", "-", " ", "", "", "", "x2")>>},
     lead \in {"", " "}}

\* the model family: an objective, constraint statements, declarations
FewConstraints ==
  {OneSided("", "", <<Var("x1")>>, "<=", "5", " "),
   OneSided("", "", <<Var("x1")>>, "<", "10", " "),
   OneSided("", "", <<Var("x1")>>, ">=", "10", " "),
   OneSided("", "", <<Var("x2")>>, "=", "3", " "),
   OneSided("c1", ": ", <<Term("", "", "", "", "2", "", "x1"),
                          Term(" ", "+", " ", "", "", "", "x3"),
                          Term(" ", "+", " ", "", "3", "", "")>>, ">=", "0", ""),
   TwoSided("", "", "5", ">", <<Var("x1")>>, ">=", "-2.5", " ")}

FewDeclarations ==
  {Declaration(<<"x1">>), Declaration(<<"x2", "x1">>), Declaration(<<"x4">>)}

ModelFiles ==
  {<<Objective("max", ": ", <<Var("x1"), Term(" ", "+", " ", "", "", "", "x2")>>)>>
   \o c \o d :
     c \in SeqsOf(FewConstraints, 0, MaxConstraints),
     d \in SeqsOf(FewDeclarations, 0, MaxDeclarations)}

\* the line family: statements with and without terminator, comments, blank
\* lines, in any order
FewLines ==
  {Objective("max", ": ", <<Var("x1")>>),
   Dressed(Objective("min", ":", <<Var("x2")>>), " ", " ;  // x2 "),
   Dressed(OneSided("", "", <<Var("x1")>>, "<=", "3", " "), "", "; // c;"),
   Dressed(OneSided("", "", <<Var("x2")>>, ">=", "3", " "), "\t", " // ;"),
   OneSided("", "", <<Var("x1")>>, "<=", "", " "),
   Dressed(Declaration(<<"x1">>), " ", ";"),
   Statement("blank", "", "", "", "", "", <<>>, "", "", "", <<>>, ""),
   Statement("blank", " ", "", "", "", "", <<>>, "", "", "", <<>>, "// max: x1;"),
   Statement("blank", "", "", "", "", "", <<>>, "", "", "", <<>>, " ; ")}

LineFiles == SeqsOf(FewLines, 0, MaxLines)

\* a statement of any text that is neither objective, constraint nor int
\* statement
Misdeclared(text) ==
  Statement("misdeclared", "", text, "", "", "", <<>>, "", "", "", <<>>, ";")

\* the bound family: constraints whose bound slots hold every form of numeral,
\* and texts that are no numeral
SlotTexts ==
  {"3", "+3", ".5", "3.", "1e2", "2E-1", "-.5e+1",
   "x2", "2.68.5", "", "e5", "3e", ".", "1 2", "--3", "inf"}

BoundStatements ==
  {OneSided("", "", b, rel, t, pad) :
     b \in {<<Var("x1")>>, <<Term("", "", "", "", "3", "", "")>>},
     rel \in {"=", "<=", ">"}, t \in SlotTexts, pad \in {"", " "}}
  \cup {TwoSided("", "", lr[1], r[1], <<Var("x1")>>, r[2], lr[2], " ") :
          r \in {<<"<=", "<">>, <<">=", ">=">>},
          lr \in {<<"30.6", "2.68.5">>, <<"x2", "3">>, <<"x2", "2.68.5">>,
                  <<"", "3">>, <<"+3", ".5">>, <<"1e2", "inf">>}}

\* the sign family: constraints with no, mixed, too many or repeated relation
\* signs
SignStatements ==
  {OneSided("", "", <<Var("x2")>>, "", "", ""),
   OneSided("c1", ": ", <<Term("", "", "", "", "3", " ", "x1")>>, "", "", ""),
   TwoSided("", "", "1", "<=", <<Var("x1")>>, "<=", "2 <= 3", " "),
   TwoSided("", "", "1", "<", <<Var("x1")>>, "<", "2 < 3 < 5", " "),
   TwoSided("", "", "10", ">=", <<Var("x1")>>, ">=", "0 >= x2", " "),
   TwoSided("", "", "3", ">", <<Var("x1")>>, ">=", "2 > 1", ""),
   OneSided("", "", <<Var("x1")>>, "=", "2 = 3", " "),
   OneSided("", "", <<Var("x1")>>, "=", "= 3", ""),
   OneSided("", "", <<Var("x1")>>, "=", "3 < 5", " "),
   TwoSided("", "", "3", "<", <<Var("x1")>>, ">", "2", " "),
   TwoSided("", "", "3", ">", <<Var("x1")>>, "<", "2", " "),
   TwoSided("", "", "3", "<=", <<Var("x1")>>, ">=", "2", " "),
   TwoSided("", "", "3", ">=", <<Var("x1")>>, "<=", "2", ""),
   TwoSided("", "", "1", "<", <<Var("x1")>>, "<", "2 > 3", " "),
   TwoSided("", "", "1", ">", <<Var("x1")>>, ">", "2 < 3", " "),
   TwoSided("", "", "1", "<", <<Var("x1")>>, "<", "2 < 3 > 5", " "),
   TwoSided("", "", "1", "<", <<Var("x1")>>, ">", "2 < 3 > 5 < 10 > 0", " ")}

\* the body family: bodies that are more than one bare name, and bodies whose
\* elements nothing separates
BodyStatements ==
  {OneSided("", "", b, r, "3", " ") :
     r \in {"=", "<=", ">="},
     b \in {<<Term("", "+", "", "", "", "", "x1")>>,
            <<Var("x1"), Term(" ", "+", " ", "", "0", "", "")>>,
            <<Var("x1"), Term(" ", "+", " ", "", "", "", "x2")>>,
            <<Var("x1"), Term(" ", "", "", "", "", "", "x2")>>,
            <<Term("", "", "", "", "2", "", "x1")>>,
            <<Var("x1"), Term("|", "", "", "", "", "", "x2")>>,
            <<Term("", "", "", "", "3", "", ""), Term("|", "", "", "", "", "", "x1")>>,
            <<Term("", "", "", "", "2", "", "x2"), Term("*", "", "", "", "", "", "x1")>>}}
  \cup {TwoSided("", "", lr[1], r, b, r, lr[2], " ") :
          r \in {"<=", ">="}, lr \in {<<"0", "5">>, <<"5", "0">>},
          b \in {<<Var("x1")>>,
                 <<Var("x1"), Term(" ", "+", " ", "", "", "", "x2")>>,
                 <<Term("", "-", "", "", "", "", "x1")>>}}
  \cup {OneSided("", "", <<Var("x1"), Term("|", "", "", "", "", "", "x2")>>,
                 "<=", "99.2", " ")}

ConstraintFamilyFiles ==
  {<<Objective("max", ": ", <<Var("x1"), Term(" ", "+", " ", "", "", "", "x2")>>)>>
   \o p \o <<c>> :
     p \in {<<>>, <<OneSided("", "", <<Var("x1")>>, "=", "30.6", " ")>>},
     c \in BoundStatements \cup SignStatements \cup BodyStatements}

\* the declaration family: int statements with every kind of name list, and
\* other statements where int statements belong
NameLists ==
  {<<>>, <<"x1">>, <<"x_1", "X">>, <<"x1", "">>, <<"", "x1">>, <<"2x">>, <<"_x">>,
   <<"x1", "x-1">>, <<"x1", "x1">>, <<"x2", "x1", "x2">>, <<"x1 x2">>}

DeclarationSequences ==
  {<<Declaration(n)>> : n \in NameLists}
  \cup {<<Declaration(<<"x3">>), Declaration(n)>> : n \in NameLists \cup {<<"x3">>}}
  \cup {<<d>> \o t : d \in {Declaration(<<"x3">>)},
                     t \in {<<Misdeclared(m)>> : m \in {"sos x2", "INT x2", "intx2",
                                                        "int: x2", "x2"}}
                            \cup {<<OneSided("", "", <<Var("x1")>>, "<=", "5", " ")>>}}
  \cup {<<Misdeclared(m)>> : m \in {"sos x2", "INT x2", "intx2", "int: x2"}}

DeclarationFamilyFiles ==
  {<<Objective("max", ": ", <<Var("x1"), Term(" ", "+", " ", "", "", "", "x2")>>)>>
   \o c \o d :
     c \in {<<>>, <<OneSided("", "", <<Var("x1")>>, "<=", "5", " ")>>},
     d \in DeclarationSequences}

\* the scan family: the expressions the tests refuse for what follows an
\* element or for their signs, and their accepted neighbours, as the objective
\* and as the body of a constraint
ScanBodies ==
  {<<Var("x"), Term("|", "", "", "", "1", "", ""), Term(" ", "+", " ", "", "", "", "x2")>>,
   <<Term("", "", "", "", "33.33", "", ""), Term("|", "", "", "", "", "", "x1")>>,
   <<Term("", "", "", "", "33.33", "", ""), Term(".", "", "", "", "33", "", "x1"),
     Term(" ", "+", " ", "", "", "", "x2")>>,
   <<Var("x1"), Term(" |", "", "", "", "", "", "x2")>>,
   <<Term("|", "", "", "", "", "", "x1")>>,
   <<Var("x1"), Term(" ", "", "", "", "", "", "x2")>>,
   <<Var("x1"), Term(" ", "+", "", "++", "", "", "x2")>>,
   <<Var("x1"), Term(" ", "+", " ", "+", "", " ", "x2")>>,
   <<Var("x1"), Term(" ", "+", "", "+", "", " ", "x2")>>,
   <<Var("x1"), Term(" ", "+", " ", "+", "", "", "x2")>>,
   <<Var("x1"), Term(" ", "+", "", "+", "", "", "x2")>>,
   <<Var("x1"), Term(" ", "-", " ", "-", "3", " ", "x2")>>,
   <<Var("x2"), Term("   ", "+", "", "", "", "", "")>>,
   <<Term("", "", "", "", "33.33", "", "x1"), Term(" ", "+", " ", "", "", "", "x2"),
     Term("   ", "+", "", "", "", "  ", "")>>}

ScanFiles ==
  {<<Objective("max", ": ", b)>> : b \in ScanBodies}
  \cup {<<Objective("max", ": ", <<Var("x1"), Term(" ", "+", " ", "", "", "", "x2")>>),
          OneSided("", "", b, "<=", "3", " ")>> : b \in ScanBodies}

\* the precedence family: an objective, good or not, and two statements, each
\* a constraint or an int statement, good or not, or a line that cannot be read
FaultyStatements ==
  {OneSided("", "", <<Var("x1")>>, "<=", "5", " "),
   OneSided("", "", <<Var("x1")>>, "<=", "x2", " "),
   OneSided("", "", <<Var("x1"), Term("", "+", "", "", "", "", "x1")>>, "<=", "3", " "),
   Declaration(<<"x3">>),
   Declaration(<<"x3", "x3">>),
   Dressed(OneSided("", "", <<Var("x2")>>, ">=", "3", " "), "\t", " // ;"),
   Statement("blank", "", "", "", "", "", <<>>, "", "", "", <<>>, " ; ")}

PrecedenceFiles ==
  {<<o>> \o r :
     o \in {Objective("max", ": ", <<Var("x1"), Term(" ", "+", " ", "", "", "", "x2")>>),
            Objective("mix", ":", <<Var("x1")>>)},
     r \in SeqsOf(FaultyStatements, 2, 2)}

Files == ExpressionFiles \cup ConstraintFiles \cup ObjectiveFiles \cup ModelFiles
         \cup LineFiles \cup ConstraintFamilyFiles \cup DeclarationFamilyFiles
         \cup ScanFiles \cup PrecedenceFiles

(***************************************************************************)
(* parse_lp_file as a state machine: one step per line of each pass.       *)
(***************************************************************************)
VARIABLES
  stmts,                  \* the statements the file was written from
  file,                   \* the lines of the file
  pc,                     \* "set_declarations", "set_objective_function_and_
                          \* constraints", "returned" or "raised"
  line_nr,                \* the line counter of the running pass
  core_line,              \* what _retrieve_core_line returned last
  in_objective_function,
  in_constraints,
  var_names,              \* the set parse_lp_file returns beside the solver
  vars,                   \* the solver's variables
  objective,              \* the solver's objective
  constraints,            \* the solver's constraint rows
  error,                  \* the ValueError raised: [msg, line_nr]
  scan                    \* the locals of _set_coefficients while its loop is
                          \* followed step by step, << >> otherwise

vars_all == <<stmts, file, pc, line_nr, core_line, in_objective_function,
              in_constraints, var_names, vars, objective, constraints, error, scan>>

ParseState == [vars |-> vars, objective |-> objective, constraints |-> constraints,
               var_names |-> var_names, err |-> NoError]

\* lines 402-409: the empty name set and solver, and the first pass about to start
Init ==
  /\ stmts \in Files
  /\ file = RenderFile(stmts)
  /\ pc = "set_declarations"
  /\ line_nr = 0
  /\ core_line = ""
  /\ in_objective_function = TRUE
  /\ in_constraints = FALSE
  /\ var_names = {}
  /\ vars = <<>>
  /\ objective = [maximization |-> FALSE, coeffs |-> EmptyCoeffs, offset |-> Norm(0, 0)]
  /\ constraints = <<>>
  /\ error = [msg |-> NoError, line_nr |-> 0]
  /\ scan = <<>>

\* the end of the constraints found by the first three letters
StartsDeclarations_Prefix(core) == FindPos(core, ":") = 0 /\ StartsWith(core, "int")

\* the statement that ends the constraints: no colon, first token int
StartsDeclarations(core) == FindPos(core, ":") = 0 /\ SplitWs(core)[1] = "int"

\* a failure raised with the line counted from 0
Store_ZeroBased(P, n) ==
  /\ vars' = P.vars
  /\ objective' = P.objective
  /\ constraints' = P.constraints
  /\ var_names' = P.var_names
  /\ error' = IF P.err # NoError THEN [msg |-> P.err, line_nr |-> n - 1] ELSE error

\* the solver and the name set become those of the parse state P; a failure is
\* raised as the ValueError of line n
Store(P, n) ==
  /\ vars' = P.vars
  /\ objective' = P.objective
  /\ constraints' = P.constraints
  /\ var_names' = P.var_names
  /\ error' = IF P.err # NoError THEN [msg |-> P.err, line_nr |-> n] ELSE error

\* one iteration of the loop of _set_declarations
SetDeclarationsLine ==
  /\ pc = "set_declarations"
  /\ line_nr < Len(file)
  /\ \E c \in {_retrieve_core_line(file[line_nr + 1])} :
       \E declare \in {/\ c.err = NoError /\ Len(c.core) # 0 /\ ~in_objective_function
                       /\ (in_constraints => StartsDeclarations(c.core))} :
         \E P \in {IF c.err # NoError THEN [ParseState EXCEPT !.err = c.err]
                   ELSE IF declare THEN _parse_declaration(ParseState, c.core)
                   ELSE ParseState} :
           /\ line_nr' = line_nr + 1
           /\ core_line' = c.core
           /\ Store(P, line_nr + 1)
           /\ pc' = IF P.err # NoError THEN "raised" ELSE pc
           /\ in_objective_function' =
                IF c.err = NoError /\ Len(c.core) # 0 THEN FALSE
                ELSE in_objective_function
           /\ in_constraints' =
                IF c.err # NoError \/ Len(c.core) = 0 THEN in_constraints
                ELSE IF in_objective_function THEN TRUE
                ELSE IF declare THEN FALSE
                ELSE in_constraints
  /\ UNCHANGED <<scan, stmts, file>>

\* the file is exhausted: the second pass opens it again
SetDeclarationsEnd ==
  /\ pc = "set_declarations"
  /\ line_nr = Len(file)
  /\ pc' = "set_objective_function_and_constraints"
  /\ line_nr' = 0
  /\ in_objective_function' = TRUE
  /\ UNCHANGED <<scan, stmts, file, core_line, in_constraints, var_names, vars, objective,
                 constraints, error>>

\* one iteration of the loop of _set_objective_function_and_constraints
SetObjectiveAndConstraintsLine ==
  /\ pc = "set_objective_function_and_constraints"
  /\ line_nr < Len(file)
  /\ \E c \in {_retrieve_core_line(file[line_nr + 1])} :
       \E skip \in {c.err = NoError /\ Len(c.core) = 0} :
         \E break \in {/\ c.err = NoError /\ Len(c.core) # 0 /\ ~in_objective_function
                       /\ StartsDeclarations(c.core)} :
           \E P \in {IF c.err # NoError THEN [ParseState EXCEPT !.err = c.err]
                     ELSE IF skip \/ break THEN ParseState
                     ELSE IF in_objective_function
                     THEN _parse_objective_function(ParseState, c.core)
                     ELSE _parse_constraint(ParseState, c.core)} :
             /\ line_nr' = line_nr + 1
             /\ core_line' = c.core
             /\ Store(P, line_nr + 1)
             /\ pc' = IF P.err # NoError THEN "raised"
                      ELSE IF break THEN "returned"
                      ELSE pc
             /\ in_objective_function' =
                  IF c.err = NoError /\ ~skip THEN FALSE ELSE in_objective_function
  /\ UNCHANGED <<scan, stmts, file, in_constraints>>

\* the file is exhausted: parse_lp_file returns the solver and the names
SetObjectiveAndConstraintsEnd ==
  /\ pc = "set_objective_function_and_constraints"
  /\ line_nr = Len(file)
  /\ pc' = "returned"
  /\ UNCHANGED <<scan, stmts, file, line_nr, core_line, in_objective_function,
                 in_constraints, var_names, vars, objective, constraints, error>>

Next ==
  \/ SetDeclarationsLine
  \/ SetDeclarationsEnd
  \/ SetObjectiveAndConstraintsLine
  \/ SetObjectiveAndConstraintsEnd

Spec == Init /\ [][Next]_vars_all

(***************************************************************************)
(* _set_coefficients as a state machine: one step per iteration of its     *)
(* while loop, over every text of a few characters.                        *)
(***************************************************************************)
MaxFragment == 4

\* a letter, a digit, a sign, whitespace, the point, the exponent letter and a
\* character no expression holds
Alphabet == {"x", "0", "+", " ", ".", "e", "|"}

\* the texts of S and those one character longer
Extended(S) == S \cup {t \o c : t \in S, c \in Alphabet}

\* the texts of at most n characters
RECURSIVE Texts(_)
Texts(n) == IF n = 0 THEN {""} ELSE Extended(Texts(n - 1))

Fragments == Texts(MaxFragment)

\* lines 86-94: _set_coefficients is called on a fragment with a new solver
ScanInit ==
  /\ scan \in {ScanStart(<<>>, {}, EmptyCoeffs, Strip(f)) : f \in Fragments}
  /\ pc = "set_coefficients"
  /\ stmts = <<>>
  /\ file = <<>>
  /\ line_nr = 0
  /\ core_line = ""
  /\ in_objective_function = TRUE
  /\ in_constraints = FALSE
  /\ var_names = {}
  /\ vars = <<>>
  /\ objective = [maximization |-> FALSE, coeffs |-> EmptyCoeffs, offset |-> Norm(0, 0)]
  /\ constraints = <<>>
  /\ error = [msg |-> NoError, line_nr |-> 0]

\* lines 88-89: the fragment is empty
ScanEmpty ==
  /\ pc = "set_coefficients"
  /\ scan.err # NoError
  /\ pc' = "raised"
  /\ UNCHANGED <<scan, stmts, file, line_nr, core_line, in_objective_function,
                 in_constraints, var_names, vars, objective, constraints, error>>

\* lines 96-166: one iteration of the while loop
ScanIterate ==
  /\ pc = "set_coefficients"
  /\ scan.err = NoError
  /\ Len(scan.remainder) # 0
  /\ \E next \in {ScanElement(scan)} :
       /\ scan' = next
       /\ pc' = IF next.err # NoError THEN "raised" ELSE pc
  /\ UNCHANGED <<stmts, file, line_nr, core_line, in_objective_function,
                 in_constraints, var_names, vars, objective, constraints, error>>

\* lines 168-172: the loop has ended
ScanExit ==
  /\ pc = "set_coefficients"
  /\ scan.err = NoError
  /\ Len(scan.remainder) = 0
  /\ \E end \in {ScanEnd(scan)} :
       /\ scan' = end
       /\ pc' = IF end.err # NoError THEN "raised" ELSE "returned"
  /\ UNCHANGED <<stmts, file, line_nr, core_line, in_objective_function,
                 in_constraints, var_names, vars, objective, constraints, error>>

ScanNext ==
  \/ ScanEmpty
  \/ ScanIterate
  \/ ScanExit

ScanSpec == ScanInit /\ [][ScanNext]_vars_all

(***************************************************************************)
(* What a statement says, read off the parts it was written from.          *)
(***************************************************************************)
\* the number each numeral of the input files denotes
WrittenValue ==
  [n \in {"0", "1", "2", "3", "5", "10", "0.1", "0.3", "3e8", "33.3", "-2.5", "30.6",
          "+3", ".5", "3.", "1e2", "2E-1", "-.5e+1", "99.2", "33", "33.33"} |->
     CASE n = "0" -> <<"fin", 0, 0>>
       [] n = "1" -> <<"fin", 1, 0>>
       [] n = "2" -> <<"fin", 2, 0>>
       [] n = "3" -> <<"fin", 3, 0>>
       [] n = "5" -> <<"fin", 5, 0>>
       [] n = "10" -> <<"fin", 1, 1>>
       [] n = "0.1" -> <<"fin", 1, -1>>
       [] n = "0.3" -> <<"fin", 3, -1>>
       [] n = "3e8" -> <<"fin", 3, 8>>
       [] n = "33.3" -> <<"fin", 333, -1>>
       [] n = "-2.5" -> <<"fin", -25, -1>>
       [] n = "30.6" -> <<"fin", 306, -1>>
       [] n = "+3" -> <<"fin", 3, 0>>
       [] n = ".5" -> <<"fin", 5, -1>>
       [] n = "3." -> <<"fin", 3, 0>>
       [] n = "1e2" -> <<"fin", 1, 2>>
       [] n = "2E-1" -> <<"fin", 2, -1>>
       [] n = "-.5e+1" -> <<"fin", -5, 0>>
       [] n = "99.2" -> <<"fin", 992, -1>>
       [] n = "33" -> <<"fin", 33, 0>>
       [] n = "33.33" -> <<"fin", 3333, -2>>]

SignOf(sign) == IF sign = "-" THEN -1 ELSE 1

\* combination sign times real sign times numeral, the numeral 1 when absent
TermValue(t) ==
  LET v == IF t.num = "" THEN <<"fin", 1, 0>> ELSE WrittenValue[t.num]
  IN <<"fin", SignOf(t.comb) * SignOf(t.real) * v[2], v[3]>>

\* the sum of the elements without a variable
RECURSIVE ConstantOf(_)
ConstantOf(terms) ==
  IF Len(terms) = 0 THEN <<"fin", 0, 0>>
  ELSE IF Head(terms).var = "" THEN FAdd(TermValue(Head(terms)), ConstantOf(Tail(terms)))
  ELSE ConstantOf(Tail(terms))

VariablesOf(terms) == {terms[i].var : i \in 1..Len(terms)} \ {""}

\* the bounds <<lb, ub>> a constraint statement asks of its row
WrittenBounds(s) ==
  LET k == ConstantOf(s.terms)
      r == FSub(WrittenValue[s.right], k)
      l == FSub(WrittenValue[s.left], k)
  IN CASE s.rel1 = "" /\ s.rel2 = "=" -> <<r, r>>
       [] s.rel1 = "" /\ s.rel2 \in {"<=", "<"} -> <<FNeg(Infinity), r>>
       [] s.rel1 = "" /\ s.rel2 \in {">=", ">"} -> <<r, Infinity>>
       [] s.rel1 \in {"<=", "<"} -> <<l, r>>
       [] s.rel1 \in {">=", ">"} -> <<r, l>>

\* the step reads a statement as a constraint and accepts it
ConstraintAccepted ==
  /\ pc = "set_objective_function_and_constraints"
  /\ pc' # "raised"
  /\ Len(constraints') = Len(constraints) + 1

(***************************************************************************)
(* C1: the row of every accepted constraint statement has the bounds of    *)
(* the statement's shape less the constant k folded out of its body:       *)
(* body = c gives [c-k, c-k]; body <= c and body < c give (-inf, c-k];     *)
(* body >= c and body > c give [c-k, +inf); lo <= body <= hi gives         *)
(* [lo-k, hi-k]; hi >= body >= lo gives [lo-k, hi-k]; an infinite side     *)
(* stays infinite.                                                         *)
(***************************************************************************)
C1_RowBounds ==
  [][ConstraintAccepted =>
       /\ stmts[line_nr'].kind = "constraint"
       /\ <<constraints'[Len(constraints')].lb, constraints'[Len(constraints')].ub>>
            = WrittenBounds(stmts[line_nr'])]_vars_all

\* 3 >= 0.1 x1 - 3+x2 > -2.5 was stored as the row [0.5, 6]
C1_Witness ==
  /\ pc = "returned"
  /\ error.msg = NoError
  /\ Len(stmts) = 2
  /\ Len(constraints) = 1
  /\ stmts[2].rel1 = ">="
  /\ stmts[2].rel2 = ">"
  /\ stmts[2].left = "3"
  /\ stmts[2].right = "-2.5"
  /\ ConstantOf(stmts[2].terms) = <<"fin", -3, 0>>
  /\ constraints[1].lb = <<"fin", 5, -1>>
  /\ constraints[1].ub = <<"fin", 6, 0>>

\* the body of the statement is one bare variable name
BareBody(s) == Len(s.terms) = 1 /\ s.terms[1].var # "" /\ s.terms[1] = Var(s.terms[1].var)

\* the bounds <<lb, ub>> of the variable called name among vs; those of a new
\* variable when there is none
BoundsOf(vs, name) ==
  IF \E i \in 1..Len(vs) : vs[i].name = name
  THEN LET v == vs[CHOOSE i \in 1..Len(vs) : vs[i].name = name] IN <<v.lb, v.ub>>
  ELSE <<FNeg(Infinity), Infinity>>

(***************************************************************************)
(* C2: when the body of an accepted constraint is one bare variable name,  *)
(* the literal bounds are written onto the variable, whatever it had:      *)
(* x <= c and x < c set the upper bound to c and leave the lower bound;    *)
(* x >= c and x > c set the lower bound and leave the upper bound; x = c   *)
(* sets both to c; lo <= x <= hi and hi >= x >= lo set the lower bound to  *)
(* lo and the upper bound to hi.                                           *)
(***************************************************************************)
C2_BareVariableBounds ==
  [][ConstraintAccepted /\ BareBody(stmts[line_nr']) =>
       LET s == stmts[line_nr']
           old == BoundsOf(vars, s.terms[1].var)
           c == WrittenValue[s.right]
       IN /\ \E i \in 1..Len(vars') : vars'[i].name = s.terms[1].var
          /\ BoundsOf(vars', s.terms[1].var) =
               CASE s.rel1 = "" /\ s.rel2 = "=" -> <<c, c>>
                 [] s.rel1 = "" /\ s.rel2 \in {"<=", "<"} -> <<old[1], c>>
                 [] s.rel1 = "" /\ s.rel2 \in {">=", ">"} -> <<c, old[2]>>
                 [] s.rel1 \in {"<=", "<"} -> <<WrittenValue[s.left], c>>
                 [] s.rel1 \in {">=", ">"} -> <<c, WrittenValue[s.left]>>]_vars_all

\* x1 >= 10 and then x1 <= 5 left x1 with the bounds [10, 5]
C2_Witness ==
  /\ pc = "returned"
  /\ error.msg = NoError
  /\ Len(stmts) = 3
  /\ BareBody(stmts[2]) /\ stmts[2].rel2 = ">=" /\ stmts[2].right = "10"
  /\ BareBody(stmts[3]) /\ stmts[3].rel2 = "<=" /\ stmts[3].right = "5"
  /\ stmts[3].terms[1].var = "x1"
  /\ BoundsOf(vars, "x1") = <<(<<"fin", 1, 1>>), (<<"fin", 5, 0>>)>>

\* the step reads a statement as the objective and accepts it
ObjectiveAccepted ==
  /\ pc = "set_objective_function_and_constraints"
  /\ pc' # "raised"
  /\ in_objective_function
  /\ ~in_objective_function'

\* coeffs holds, for each variable of the elements, the value of its element
CoefficientsAsWritten(coeffs, terms) ==
  /\ DOMAIN coeffs = VariablesOf(terms)
  /\ \A i \in 1..Len(terms) : terms[i].var # "" => coeffs[terms[i].var] = TermValue(terms[i])

(***************************************************************************)
(* C3: the coefficient stored for the variable of an element is the        *)
(* product of its combination sign (+1 when absent), its real sign (+1     *)
(* when absent) and its numeral (1 when absent); whitespace between the    *)
(* numeral and the variable changes nothing.  So --x1 stores +1,           *)
(* +-0.1x1 stores -0.1, 3e8x1 stores 3e8 and 0.3 x2 stores 0.3.            *)
(***************************************************************************)
C3_Coefficients ==
  [][/\ ObjectiveAccepted =>
          CoefficientsAsWritten(objective'.coeffs, stmts[line_nr'].terms)
     /\ ConstraintAccepted =>
          CoefficientsAsWritten(constraints'[Len(constraints')].coeffs,
                                stmts[line_nr'].terms)]_vars_all

\* max: +-0.1x1 + 0.3 x2 was stored with -0.1 on x1 and 0.3 on x2
C3_Witness ==
  /\ pc = "returned"
  /\ error.msg = NoError
  /\ file = <<"max: +-0.1x1 + 0.3 x2;\n">>
  /\ objective.coeffs["x1"] = <<"fin", -1, -1>>
  /\ objective.coeffs["x2"] = <<"fin", 3, -1>>

(***************************************************************************)
(* C4: the constant of an expression is the sum of its signed numerals     *)
(* without a variable, and the offset of the objective is that sum:        *)
(* --x1 + +x2+1--1 has the offset 2, and 33.3 3x1 + x2 has the offset      *)
(* 33.3 with the coefficient 3 on x1.                                      *)
(***************************************************************************)
C4_ObjectiveOffset ==
  [][ObjectiveAccepted => objective'.offset = ConstantOf(stmts[line_nr'].terms)]_vars_all

\* max: --x1 + +x2+1--1 was stored with the offset 2
C4_Witness ==
  /\ pc = "returned"
  /\ error.msg = NoError
  /\ file = <<"max: --x1 + +x2+1--1;\n">>
  /\ objective.offset = <<"fin", 2, 0>>
  /\ objective.coeffs["x1"] = <<"fin", 1, 0>>

\* the step reads a statement as the objective, accepting it or not
ObjectiveRead ==
  /\ pc = "set_objective_function_and_constraints"
  /\ in_objective_function
  /\ ~in_objective_function'

(***************************************************************************)
(* C5: the first non-empty statement is split at its first colon; without  *)
(* a colon, or with a text before the colon that is not exactly max or     *)
(* min (the text is not trimmed, so max : x1 fails), the parse fails with  *)
(* the invalid-direction error of that line; otherwise the solver is set   *)
(* to maximization for max and to minimization for min.                    *)
(***************************************************************************)
C5_ObjectiveDirection ==
  [][ObjectiveRead =>
       LET s == stmts[line_nr']
           invalid == [msg |-> "Objective function must start with max: or min:",
                       line_nr |-> line_nr']
       IN IF s.colon = "" \/ s.head \notin {"max", "min"}
          THEN pc' = "raised" /\ error' = invalid
          ELSE /\ error' # invalid
               /\ pc' # "raised" => objective'.maximization = (s.head = "max")]_vars_all

\* max :x1 was refused for its direction
C5_Witness ==
  /\ pc = "raised"
  /\ file = <<"max :x1;\n">>
  /\ stmts[1].head = "max "
  /\ error = [msg |-> "Objective function must start with max: or min:", line_nr |-> 1]

\* the names of the int statements of the file
DeclaredNames ==
  UNION {{stmts[i].names[j] : j \in 1..Len(stmts[i].names)} :
           i \in {k \in 1..Len(stmts) : stmts[k].kind = "declaration"}}

(***************************************************************************)
(* C6: in the returned solver a variable is integer exactly when an int    *)
(* statement declared it, and every declared name is a variable; a         *)
(* variable that an expression creates is continuous and has the bounds    *)
(* (-inf, +inf), before the statement that creates it applies its own      *)
(* bare-variable bounds.                                                   *)
(***************************************************************************)
C6_IntegerIffDeclared ==
  [][/\ pc' = "returned" =>
          /\ \A i \in 1..Len(vars') :
                vars'[i].integer <=> vars'[i].name \in DeclaredNames
          /\ DeclaredNames \subseteq {vars'[i].name : i \in 1..Len(vars')}
     /\ pc = "set_objective_function_and_constraints" =>
          \A i \in (Len(vars) + 1)..Len(vars') :
            /\ ~vars'[i].integer
            /\ \/ <<vars'[i].lb, vars'[i].ub>> = <<FNeg(Infinity), Infinity>>
               \/ /\ ConstraintAccepted
                  /\ BareBody(stmts[line_nr'])
                  /\ stmts[line_nr'].terms[1].var = vars'[i].name]_vars_all

\* x2 and x1 were declared and x3 came from a constraint: the solver returned
\* has x1 and x2 integer and x3 continuous and unbounded
C6_Witness ==
  /\ pc = "returned"
  /\ error.msg = NoError
  /\ DeclaredNames = {"x1", "x2"}
  /\ \E i, j \in 1..Len(vars) :
       /\ vars[i] = [name |-> "x3", lb |-> FNeg(Infinity), ub |-> Infinity,
                     integer |-> FALSE]
       /\ vars[j].name = "x1" /\ vars[j].integer

(***************************************************************************)
(* C7: the name set returned equals the set of the names of the variables  *)
(* of the solver returned, declared or referenced, and the solver holds    *)
(* one variable per name.                                                  *)
(***************************************************************************)
C7_VarNames ==
  pc = "returned" =>
    /\ var_names = {vars[i].name : i \in 1..Len(vars)}
    /\ \A i, j \in 1..Len(vars) : vars[i].name = vars[j].name => i = j

\* a parse returned four names: two of the objective, one of a constraint, one
\* declared only
C7_Witness ==
  /\ pc = "returned"
  /\ error.msg = NoError
  /\ var_names = {"x1", "x2", "x3", "x4"}
  /\ Len(vars) = 4
  /\ DeclaredNames = {"x4"}

\* the endings of the statements of the input files that hold a terminator
\* outside a comment
Terminated(tail) == tail \in {";", " ;  // x2 ", "; // c;", " ; "}

MissingTerminator == "does not end with a semi-colon"

EmptyStatement == "ends with semi-colon but is empty otherwise"

\* the step reads a line, in either pass
LineRead ==
  /\ pc \in {"set_declarations", "set_objective_function_and_constraints"}
  /\ line_nr' = line_nr + 1

(***************************************************************************)
(* C8: for every line read, with its text before the comment trimmed: no   *)
(* text and no terminator give the empty core, and the line is skipped;    *)
(* text without a terminator before the comment raises the missing-        *)
(* terminator error with the 1-based number of the line among all lines,   *)
(* also when the comment holds a semi-colon; a terminator without text     *)
(* raises the empty-statement error; otherwise the core is the trimmed     *)
(* text before the terminator.                                             *)
(***************************************************************************)
C8_CoreLine ==
  [][LineRead =>
       LET s == stmts[line_nr']
           text == Strip(Content(s))
       IN CASE text = "" /\ ~Terminated(s.tail) ->
                 /\ core_line' = ""
                 /\ pc' = pc
                 /\ UNCHANGED <<var_names, vars, objective, constraints, error,
                                in_objective_function, in_constraints>>
            [] text # "" /\ ~Terminated(s.tail) ->
                 /\ pc' = "raised"
                 /\ error' = [msg |-> MissingTerminator, line_nr |-> line_nr']
            [] text = "" /\ Terminated(s.tail) ->
                 /\ pc' = "raised"
                 /\ error' = [msg |-> EmptyStatement, line_nr |-> line_nr']
            [] text # "" /\ Terminated(s.tail) ->
                 /\ core_line' = text
                 /\ error'.msg \notin {MissingTerminator, EmptyStatement}]_vars_all

\* the third line, after an empty line and a comment line, has its only
\* semi-colon in its comment: the missing terminator of line 3 was raised
C8_Witness ==
  /\ pc = "raised"
  /\ file = <<"\n", " // max: x1;\n", "\tx2 >= 3 // ;\n">>
  /\ error = [msg |-> MissingTerminator, line_nr |-> 3]

\* a variable name occurs twice among the elements
Duplicated(terms) ==
  \E i, j \in 1..Len(terms) : i # j /\ terms[i].var # "" /\ terms[i].var = terms[j].var

\* the step reads a statement as a constraint, accepting it or not
ConstraintRead ==
  /\ pc = "set_objective_function_and_constraints"
  /\ ~in_objective_function
  /\ line_nr' = line_nr + 1
  /\ pc' # "returned"
  /\ core_line' # ""

\* a constraint statement with its relation signs and bound literals in order
WellShaped(s) ==
  /\ s.kind = "constraint"
  /\ s.right \in DOMAIN WrittenValue
  /\ \/ s.rel1 = "" /\ s.rel2 \in {"=", "<=", "<", ">=", ">"}
     \/ s.rel1 \in {"<=", "<"} /\ s.rel2 \in {"<=", "<"} /\ s.left \in DOMAIN WrittenValue
     \/ s.rel1 \in {">=", ">"} /\ s.rel2 \in {">=", ">"} /\ s.left \in DOMAIN WrittenValue

\* the step scans the expression of the statement it reads: of an objective
\* with a direction, or of a constraint with its signs and literals in order
ExpressionScanned ==
  \/ ObjectiveRead /\ stmts[line_nr'].colon # "" /\ stmts[line_nr'].head \in {"max", "min"}
  \/ ConstraintRead /\ WellShaped(stmts[line_nr'])

DuplicateVariable == "found more than once"

(***************************************************************************)
(* C9: an expression scanned, of the objective or of a constraint, raises  *)
(* the duplicate-variable error of its line exactly when a variable name   *)
(* occurs twice among its elements; the names of other statements do not   *)
(* count, and no step raises that error for a statement without a name     *)
(* occurring twice.                                                        *)
(***************************************************************************)
C9_DuplicateVariable ==
  [][/\ ExpressionScanned =>
          (Duplicated(stmts[line_nr'].terms) <=>
             /\ pc' = "raised"
             /\ error' = [msg |-> DuplicateVariable, line_nr |-> line_nr'])
     /\ (LineRead /\ error'.msg = DuplicateVariable) =>
          Duplicated(stmts[line_nr'].terms)]_vars_all

\* max: x1+x1 was refused for the second x1
C9_Witness ==
  /\ pc = "raised"
  /\ file = <<"max: x1+x1;\n">>
  /\ Duplicated(stmts[1].terms)
  /\ error = [msg |-> DuplicateVariable, line_nr |-> 1]

(***************************************************************************)
(* C10: an expression scanned whose elements hold no variable, because it  *)
(* is empty or holds only constants, raises a missing-variable error of    *)
(* its line: 3 <= 3, <= 30.6 and max: 3 are all refused.                   *)
(***************************************************************************)
C10_MissingVariable ==
  [][(ExpressionScanned /\ VariablesOf(stmts[line_nr'].terms) = {}) =>
       /\ pc' = "raised"
       /\ error'.line_nr = line_nr'
       /\ error'.msg = IF Len(stmts[line_nr'].terms) = 0
                       THEN "No variables present in equation"
                       ELSE "Not a single variable present in the coefficients"]_vars_all

\* 3 <= 3 on the second line was refused for holding no variable
C10_Witness ==
  /\ pc = "raised"
  /\ file = <<"max: x1;\n", "3 <= 3;\n">>
  /\ VariablesOf(stmts[2].terms) = {}
  /\ error = [msg |-> "Not a single variable present in the coefficients", line_nr |-> 2]

\* the relation signs written inside a bound text
SignsIn(text) ==
  CASE text = "2 <= 3" -> <<"<=">>
    [] text = "2 < 3 < 5" -> <<"<", "<">>
    [] text = "0 >= x2" -> <<">=">>
    [] text = "2 > 1" -> <<">">>
    [] text = "2 = 3" -> <<"=">>
    [] text = "= 3" -> <<"=">>
    [] text = "3 < 5" -> <<"<">>
    [] text = "2 > 3" -> <<">">>
    [] text = "2 < 3" -> <<"<">>
    [] text = "2 < 3 > 5" -> <<"<", ">">>
    [] text = "2 < 3 > 5 < 10 > 0" -> <<"<", ">", "<", ">">>
    [] OTHER -> <<>>

\* the relation signs of a statement, in the order written
SignsOf(s) ==
  (IF s.rel1 # "" THEN <<s.rel1>> ELSE <<>>) \o (IF s.rel2 # "" THEN <<s.rel2>> ELSE <<>>)
  \o SignsIn(s.right)

LessSigns == {"<=", "<"}

GreaterSigns == {">=", ">"}

\* one relation sign, or two of the same direction around the body
ProperSigns(s) ==
  \/ s.rel1 = "" /\ Len(SignsOf(s)) = 1
  \/ /\ Len(SignsOf(s)) = 2
     /\ s.rel1 # ""
     /\ \/ s.rel1 \in LessSigns /\ s.rel2 \in LessSigns
        \/ s.rel1 \in GreaterSigns /\ s.rel2 \in GreaterSigns

\* the text is a numeral of the grammar
ValidLiteral(text) == text \in DOMAIN WrittenValue

NonConstantBound ==
  {"Right hand side of equality constraint is not a float",
   "Left hand side of inequality constraint is not a float",
   "Right hand side of inequality constraint is not a float"}

(***************************************************************************)
(* C11: a constraint read with one relation sign, or two of the same       *)
(* direction, is refused with the not-a-float error of its line when a     *)
(* bound slot (the right side, and for two signs first the left side) is   *)
(* no numeral of the grammar after trimming, and is never refused with     *)
(* that error when every slot is a numeral.  x1 <= x2, 3 <= x1 and         *)
(* 30.6 >= x1 >= 2.68.5 are refused.                                       *)
(***************************************************************************)
C11_BoundLiterals ==
  [][(ConstraintRead /\ stmts[line_nr'].kind = "constraint"
      /\ ProperSigns(stmts[line_nr'])) =>
       LET s == stmts[line_nr']
       IN IF s.rel1 # "" /\ ~ValidLiteral(s.left)
          THEN /\ pc' = "raised"
               /\ error' = [msg |-> "Left hand side of inequality constraint is not a float",
                            line_nr |-> line_nr']
          ELSE IF ~ValidLiteral(s.right)
          THEN /\ pc' = "raised"
               /\ error' = [msg |-> IF s.rel2 = "="
                                    THEN "Right hand side of equality constraint is not a float"
                                    ELSE "Right hand side of inequality constraint is not a float",
                            line_nr |-> line_nr']
          ELSE error'.msg \notin NonConstantBound]_vars_all

\* 30.6 >= x1 >= 2.68.5 on the third line was refused for its right side
C11_Witness ==
  /\ pc = "raised"
  /\ Len(file) = 3
  /\ file[3] = "30.6 >= x1 >= 2.68.5;\n"
  /\ ~ValidLiteral(stmts[3].right)
  /\ error = [msg |-> "Right hand side of inequality constraint is not a float",
              line_nr |-> 3]

\* how many of the signs are of the set
CountOf(signs, set) == Cardinality({i \in 1..Len(signs) : signs[i] \in set})

\* the statement holds = and neither <= nor >=
EqualityClassified(s) ==
  CountOf(SignsOf(s), {"="}) > 0 /\ CountOf(SignsOf(s), {"<=", ">="}) = 0

\* the step reads a statement written as a constraint as a constraint
WrittenConstraintRead == ConstraintRead /\ stmts[line_nr'].kind = "constraint"

NoSign == "No (in)equality sign present for constraint"

TooManySigns == "Too many (in)equality signs present for constraint"

MultipleEqualsSigns == "Equality constraint has multiple equal signs"

\* the step raises msg for the line it reads
Refused(msg) == pc' = "raised" /\ error' = [msg |-> msg, line_nr |-> line_nr']

C13_MixedSigns ==
  [][(/\ WrittenConstraintRead
      /\ CountOf(SignsOf(stmts[line_nr']), LessSigns) > 0
      /\ CountOf(SignsOf(stmts[line_nr']), GreaterSigns) > 0)
       => Refused(TooManySigns)]_vars_all

\* the names of the input files that match the identifier grammar
ValidNames == {"x1", "x2", "x3", "x4", "x_1", "X"}

\* the first statement of the file that is not blank: the objective
FirstStatement ==
  IF \E i \in 1..Len(stmts) : stmts[i].kind # "blank"
  THEN CHOOSE i \in 1..Len(stmts) :
         stmts[i].kind # "blank" /\ \A j \in 1..(i - 1) : stmts[j].kind = "blank"
  ELSE Len(stmts) + 1

\* the names of the int statements between the objective and line n
PriorNames(n) ==
  UNION {{stmts[i].names[j] : j \in 1..Len(stmts[i].names)} :
           i \in {k \in (FirstStatement + 1)..(n - 1) : stmts[k].kind = "declaration"}}

\* an int statement with a list of valid names, none declared on an earlier
\* line (prior) or earlier in the list
WellDeclared(s, prior) ==
  /\ s.kind = "declaration"
  /\ Len(s.names) > 0
  /\ \A i \in 1..Len(s.names) :
       /\ s.names[i] \in ValidNames
       /\ s.names[i] \notin prior
       /\ \A j \in 1..(i - 1) : s.names[j] # s.names[i]

\* the step of the first pass reads a statement as a declaration
DeclarationRead ==
  /\ pc = "set_declarations"
  /\ line_nr' = line_nr + 1
  /\ core_line' # ""
  /\ ~in_constraints'

DeclarationErrors ==
  {"Declaration should start with int", "Declaration has no variables",
   "Non-permitted variable name", "declared again"}

(***************************************************************************)
(* C14: a statement read as a declaration is accepted exactly when it is   *)
(* int followed by a non-empty comma-separated list whose trimmed items    *)
(* are all identifiers not declared before, on an earlier declaration      *)
(* line or earlier in the list; the names the objective and the            *)
(* constraints use do not count.  When accepted, its names become integer  *)
(* variables, in order; otherwise a declaration error of its line is       *)
(* raised.                                                                 *)
(***************************************************************************)
C14_Declaration ==
  [][DeclarationRead =>
       LET s == stmts[line_nr']
       IN IF WellDeclared(s, PriorNames(line_nr'))
          THEN /\ pc' # "raised"
               /\ var_names' = var_names \cup {s.names[j] : j \in 1..Len(s.names)}
               /\ vars' = vars \o [j \in 1..Len(s.names) |->
                                     [name |-> s.names[j], lb |-> FNeg(Infinity),
                                      ub |-> Infinity, integer |-> TRUE]]
          ELSE /\ pc' = "raised"
               /\ error'.line_nr = line_nr'
               /\ error'.msg \in DeclarationErrors]_vars_all

\* int x2, x1, x2 was refused for the second x2, although the objective names
\* x1 and x2 too
C14_Witness ==
  /\ pc = "raised"
  /\ Len(file) = 2
  /\ file[1] = "max: x1 + x2;\n"
  /\ file[2] = "int x2, x1, x2;\n"
  /\ var_names = {"x1", "x2"}
  /\ error = [msg |-> "declared again", line_nr |-> 2]

\* the first statement after the objective written as an int statement; past the
\* end of the file when there is none
RegionStart ==
  IF \E i \in (FirstStatement + 1)..Len(stmts) : stmts[i].kind = "declaration"
  THEN CHOOSE i \in (FirstStatement + 1)..Len(stmts) :
         /\ stmts[i].kind = "declaration"
         /\ \A j \in (FirstStatement + 1)..(i - 1) : stmts[j].kind # "declaration"
  ELSE Len(stmts) + 1

\* the names of the int statements from line n on, in order
RECURSIVE NamesFrom(_)
NamesFrom(n) ==
  IF n > Len(stmts) THEN <<>> ELSE stmts[n].names \o NamesFrom(n + 1)

(***************************************************************************)
(* C15: the first statement after the objective that is written as an     *)
(* int statement (no colon, first token int) starts the declarations       *)
(* region.  The first pass leaves the solver and the names alone on every  *)
(* line before it and reads every non-empty line from it on as a           *)
(* declaration, failing when the line is none.  The second pass adds one   *)
(* row for every non-empty line between the objective and the region,      *)
(* returns at the first line of the region without processing it and       *)
(* reads no line after it.  A parse that returns has one row for each      *)
(* statement before the region and one integer variable for each name      *)
(* declared in it.                                                         *)
(***************************************************************************)
C15_Regions ==
  [][/\ (pc = "set_declarations" /\ line_nr' = line_nr + 1) =>
          IF line_nr' < RegionStart
          THEN /\ UNCHANGED <<vars, var_names, objective, constraints>>
               /\ ~DeclarationRead
          ELSE core_line' # "" =>
                 /\ DeclarationRead
                 /\ stmts[line_nr'].kind # "declaration" => pc' = "raised"
     /\ (pc = "set_objective_function_and_constraints" /\ line_nr' = line_nr + 1) =>
          /\ line_nr' <= RegionStart
          /\ line_nr' = RegionStart =>
               /\ pc' = "returned"
               /\ UNCHANGED <<vars, var_names, objective, constraints, error>>
          /\ (/\ FirstStatement < line_nr' /\ line_nr' < RegionStart
              /\ core_line' # "" /\ pc' # "raised") =>
               /\ Len(constraints') = Len(constraints) + 1
               /\ pc' = pc
     /\ pc' = "returned" =>
          /\ Len(constraints') =
               Cardinality({i \in (FirstStatement + 1)..(RegionStart - 1) :
                              stmts[i].kind # "blank"})
          /\ [i \in 1..Len(NamesFrom(RegionStart)) |-> NamesFrom(RegionStart)[i]] =
               [i \in 1..Len(NamesFrom(RegionStart)) |-> vars'[i].name]
          /\ \A i \in 1..Len(vars') : vars'[i].integer <=> i <= Len(NamesFrom(RegionStart))
          ]_vars_all

\* a file of an objective, two constraints and two int statements returned
\* with two rows and the declared variables as the only integer ones
C15_Witness ==
  /\ pc = "returned"
  /\ error.msg = NoError
  /\ Len(stmts) = 5
  /\ RegionStart = 4
  /\ line_nr = 4
  /\ Len(constraints) = 2
  /\ NamesFrom(RegionStart) = <<"x4", "x2", "x1">>
  /\ {i \in 1..Len(vars) : vars[i].integer} = {1, 2, 3}

\* "%d" of a line number
DecimalDigit(d) ==
  CASE d = 0 -> "0" [] d = 1 -> "1" [] d = 2 -> "2" [] d = 3 -> "3" [] d = 4 -> "4"
    [] d = 5 -> "5" [] d = 6 -> "6" [] d = 7 -> "7" [] d = 8 -> "8" [] d = 9 -> "9"

RECURSIVE DecimalText(_)
DecimalText(n) ==
  IF n < 10 THEN DecimalDigit(n) ELSE DecimalText(n \div 10) \o DecimalDigit(n % 10)

\* lines 163-166: the message of the ValueError raised for the character after
\* an element
UnexpectedNextCharacterMessage(e) ==
  e.msg \o " on line " \o DecimalText(e.line_nr)
  \o " (expected whitespace or combination sign character)."

\* a variable name is directly followed by a character that is neither
\* whitespace nor a combination sign
FollowedDirectly(terms) ==
  \E i \in 2..Len(terms) :
    /\ terms[i - 1].var # ""
    /\ terms[i].sep \notin {"", " "}

(***************************************************************************)
(* C16: a constraint whose body has a variable name directly followed by a *)
(* character that is neither whitespace nor + or - is refused with the     *)
(* message "Whitespace or combination sign is missing on line <n>.", n     *)
(* being the line of the statement.                                        *)
(***************************************************************************)
C16_AdjacencyMessage ==
  [][(/\ ConstraintRead
      /\ WellShaped(stmts[line_nr'])
      /\ FollowedDirectly(stmts[line_nr'].terms)) =>
       /\ pc' = "raised"
       /\ UnexpectedNextCharacterMessage(error') =
            "Whitespace or combination sign is missing on line "
            \o DecimalText(line_nr') \o "."]_vars_all

\* a body the scanner reads to its end: its elements are set off by whitespace
\* or a combination sign, it names a variable and names none twice
BodyReadable(terms) ==
  /\ VariablesOf(terms) # {}
  /\ ~Duplicated(terms)
  /\ \A i \in 1..Len(terms) : TermWellFormed(terms[i]) /\ terms[i].real \in {"", "+", "-"}
  /\ terms[1].sep = ""
  /\ Separated(terms)
  /\ \A i \in 2..Len(terms) : terms[i].sep \in {"", " "}

\* the step adds one row with the bounds <<lb, ub>> and leaves the other rows
RowStored(bounds) ==
  /\ pc' # "raised"
  /\ Len(constraints') = Len(constraints) + 1
  /\ SubSeq(constraints', 1, Len(constraints)) = constraints
  /\ constraints'[Len(constraints')].lb = bounds[1]
  /\ constraints'[Len(constraints')].ub = bounds[2]

(***************************************************************************)
(* C17: no step compares a lower bound with an upper bound.  A two-sided   *)
(* statement whose lower literal exceeds its upper literal is accepted:    *)
(* its row is stored with the bounds as written, lower above upper, and a  *)
(* bare variable body gets the same two bounds.  A one-sided statement on  *)
(* a bare variable whose literal crosses the bound the variable already    *)
(* has on the other side is accepted: the literal is written, the other    *)
(* bound stays, and the row is stored as written.                          *)
(***************************************************************************)
C17_NoOrderCheck ==
  [][(ConstraintRead /\ WellShaped(stmts[line_nr']) /\ BodyReadable(stmts[line_nr'].terms)) =>
       LET s == stmts[line_nr']
           name == s.terms[1].var
           c == WrittenValue[s.right]
           old == BoundsOf(vars, name)
       IN /\ (s.rel1 # "" /\ FLess(WrittenBounds(s)[2], WrittenBounds(s)[1])) =>
               /\ RowStored(WrittenBounds(s))
               /\ BareBody(s) => BoundsOf(vars', name) = WrittenBounds(s)
          /\ (s.rel1 = "" /\ BareBody(s) /\ s.rel2 \in GreaterSigns /\ FLess(old[2], c)) =>
               /\ RowStored(<<c, Infinity>>)
               /\ BoundsOf(vars', name) = <<c, old[2]>>
          /\ (s.rel1 = "" /\ BareBody(s) /\ s.rel2 \in LessSigns /\ FLess(c, old[1])) =>
               /\ RowStored(<<FNeg(Infinity), c>>)
               /\ BoundsOf(vars', name) = <<old[1], c>>]_vars_all

\* x1 >= 10 then x1 <= 5 returned with feasible rows and x1 left in [10, 5]
C17_Witness ==
  /\ pc = "returned"
  /\ error.msg = NoError
  /\ Len(constraints) = 2
  /\ \A j \in 1..2 : ~FLess(constraints[j].ub, constraints[j].lb)
  /\ constraints[1].lb = <<"fin", 1, 1>>
  /\ constraints[2].ub = <<"fin", 5, 0>>
  /\ \E i \in 1..Len(vars) :
       /\ vars[i].name = "x1"
       /\ FLess(vars[i].ub, vars[i].lb)
       /\ vars[i].lb = constraints[1].lb
       /\ vars[i].ub = constraints[2].ub

\* the first non-empty statement of the file is an objective: max or min before
\* its first colon, and a variable among its elements
HasObjectiveStatement ==
  /\ FirstStatement <= Len(stmts)
  /\ stmts[FirstStatement].colon # ""
  /\ stmts[FirstStatement].head \in {"max", "min"}
  /\ VariablesOf(stmts[FirstStatement].terms) # {}

(***************************************************************************)
(* C18: every returned model has the objective of the first non-empty      *)
(* statement, which has a direction of max or min and at least one         *)
(* variable; no file, and none without a non-empty statement, is returned  *)
(* without such a statement.                                               *)
(***************************************************************************)
C18_OneObjective ==
  pc = "returned" =>
    /\ HasObjectiveStatement
    /\ objective.maximization = (stmts[FirstStatement].head = "max")
    /\ CoefficientsAsWritten(objective.coeffs, stmts[FirstStatement].terms)

(***************************************************************************)
(* C19: when the body of an accepted constraint is anything but one bare   *)
(* variable name (a coefficient, a sign, a constant or a second variable   *)
(* with it), the step leaves every variable as it was, bounds included;    *)
(* the variables it creates have the default bounds, and it adds one row   *)
(* and nothing else.                                                       *)
(***************************************************************************)
C19_HeuristicNoOp ==
  [][(/\ ConstraintAccepted
      /\ stmts[line_nr'].kind = "constraint"
      /\ ~BareBody(stmts[line_nr'])) =>
       /\ Len(vars') >= Len(vars)
       /\ \A i \in 1..Len(vars) : vars'[i] = vars[i]
       /\ \A i \in (Len(vars) + 1)..Len(vars') :
            /\ vars'[i].lb = FNeg(Infinity)
            /\ vars'[i].ub = Infinity
            /\ vars'[i].name \in VariablesOf(stmts[line_nr'].terms)
       /\ SubSeq(constraints', 1, Len(constraints)) = constraints
       /\ objective' = objective]_vars_all

\* 0 <= x1 + x2 <= 5 after x1 = 30.6 was accepted and left x1 at 30.6
C19_Witness ==
  /\ pc = "returned"
  /\ error.msg = NoError
  /\ file = <<"max: x1 + x2;\n", "x1 = 30.6;\n", "0 <= x1 + x2 <= 5;\n">>
  /\ ~BareBody(stmts[3])
  /\ Len(constraints) = 2
  /\ BoundsOf(vars, "x1") = <<(<<"fin", 306, 0 - 1>>), (<<"fin", 306, 0 - 1>>)>>
  /\ BoundsOf(vars, "x2") = <<FNeg(Infinity), Infinity>>

(***************************************************************************)
(* C20: for every accepted constraint whose body is one bare variable      *)
(* name, the row of the statement has coefficient 1 on that variable, and  *)
(* each bound of the variable after the step equals the bound of the row   *)
(* on the same side where the row has a finite one, and is the bound the   *)
(* variable had where the row is infinite: one side for a one-sided        *)
(* statement, both sides and equal for an equality, both sides for the     *)
(* ascending and the descending two-sided statement.                       *)
(***************************************************************************)
C20_HeuristicMatchesRow ==
  [][(/\ ConstraintAccepted
      /\ stmts[line_nr'].kind = "constraint"
      /\ BareBody(stmts[line_nr'])) =>
       LET s == stmts[line_nr']
           name == s.terms[1].var
           row == constraints'[Len(constraints')]
           old == BoundsOf(vars, name)
           new == BoundsOf(vars', name)
       IN /\ DOMAIN row.coeffs = {name}
          /\ row.coeffs[name] = <<"fin", 1, 0>>
          /\ new[1] = IF IsInf(row.lb) THEN old[1] ELSE row.lb
          /\ new[2] = IF IsInf(row.ub) THEN old[2] ELSE row.ub
          /\ s.rel1 # "" => ~IsInf(row.lb) /\ ~IsInf(row.ub)
          /\ (s.rel1 = "" /\ s.rel2 = "=") => ~IsInf(row.lb) /\ row.lb = row.ub
          /\ (s.rel1 = "" /\ s.rel2 \in LessSigns) => IsInf(row.lb) /\ ~IsInf(row.ub)
          /\ (s.rel1 = "" /\ s.rel2 \in GreaterSigns) => ~IsInf(row.lb) /\ IsInf(row.ub)
     ]_vars_all

\* 5 >= x1 >= 0 returned with the row and x1 both in [0, 5]
C20_Witness ==
  /\ pc = "returned"
  /\ error.msg = NoError
  /\ file = <<"max: x1 + x2;\n", "5 >= x1 >= 0;\n">>
  /\ BareBody(stmts[2])
  /\ constraints[1].lb = <<"fin", 0, 0>>
  /\ constraints[1].ub = <<"fin", 5, 0>>
  /\ BoundsOf(vars, "x1") = <<constraints[1].lb, constraints[1].ub>>

\* the lines of the non-empty statements from line n to the declarations
RECURSIVE ConstraintLinesFrom(_)
ConstraintLinesFrom(n) ==
  IF n >= RegionStart \/ n > Len(stmts) THEN <<>>
  ELSE (IF stmts[n].kind # "blank" THEN <<n>> ELSE <<>>) \o ConstraintLinesFrom(n + 1)

\* the lines of the constraint statements of the file, in order
ConstraintLines == ConstraintLinesFrom(FirstStatement + 1)

\* rows holds one row for each constraint statement, in the order of the file,
\* each with the bounds and the coefficients of its statement
RowsInFileOrder(rows) ==
  /\ Len(rows) = Len(ConstraintLines)
  /\ \A j \in 1..Len(rows) :
       /\ stmts[ConstraintLines[j]].kind = "constraint"
       /\ <<rows[j].lb, rows[j].ub>> = WrittenBounds(stmts[ConstraintLines[j]])
       /\ CoefficientsAsWritten(rows[j].coeffs, stmts[ConstraintLines[j]].terms)

(***************************************************************************)
(* C21: a parse that returns holds one row for each non-empty statement    *)
(* between the objective and the first int statement, in the order of the  *)
(* file, each row being that of its statement.  The objective and the      *)
(* steps of the first pass, which reads the int statements, add no row; a  *)
(* bare-variable statement appends its own row as any other constraint     *)
(* does.                                                                   *)
(***************************************************************************)
C21_RowPerStatement ==
  [][/\ pc' = "returned" => RowsInFileOrder(constraints')
     /\ (ObjectiveRead \/ pc = "set_declarations") => constraints' = constraints
     /\ (/\ ConstraintRead /\ pc' # "raised"
         /\ stmts[line_nr'].kind = "constraint" /\ BareBody(stmts[line_nr'])) =>
          /\ Len(constraints') = Len(constraints) + 1
          /\ SubSeq(constraints', 1, Len(constraints)) = constraints]_vars_all

\* x1 >= 10, then a labelled constraint with the constant 3, then an int
\* statement: returned with the rows [10, inf) and [-3, inf) in this order
C21_Witness ==
  /\ pc = "returned"
  /\ error.msg = NoError
  /\ Len(stmts) = 4
  /\ ConstraintLines = <<2, 3>>
  /\ BareBody(stmts[2])
  /\ stmts[3].head = "c1"
  /\ stmts[4].kind = "declaration"
  /\ Len(constraints) = 2
  /\ constraints[1].lb = <<"fin", 1, 1>>
  /\ constraints[2].lb = <<"fin", 0 - 3, 0>>
  /\ DOMAIN constraints[1].coeffs = {"x1"}
  /\ DOMAIN constraints[2].coeffs = {"x1", "x3"}

\* the step of the second pass reads a statement: the objective or a constraint
ExpressionRead ==
  /\ pc = "set_objective_function_and_constraints"
  /\ line_nr' = line_nr + 1

(***************************************************************************)
(* C22: a step that reads the objective or a constraint keeps every        *)
(* variable the solver holds at its place with its name and integrality,   *)
(* and creates variables only for names the solver does not hold, as       *)
(* continuous ones, so no name has two variables.  A bound of a variable   *)
(* held changes only when the statement is an accepted constraint whose    *)
(* body is that bare variable name.  A variable is integer only when a     *)
(* step of the first pass created it from an int statement.                *)
(***************************************************************************)
C22_ReferenceKeepsVariable ==
  [][/\ ExpressionRead =>
          /\ Len(vars') >= Len(vars)
          /\ \A i \in 1..Len(vars) :
               /\ vars'[i].name = vars[i].name
               /\ vars'[i].integer = vars[i].integer
               /\ <<vars'[i].lb, vars'[i].ub>> # <<vars[i].lb, vars[i].ub>> =>
                    /\ ConstraintAccepted
                    /\ BareBody(stmts[line_nr'])
                    /\ stmts[line_nr'].terms[1].var = vars[i].name
          /\ \A i \in (Len(vars) + 1)..Len(vars') : ~vars'[i].integer
          /\ \A i, j \in 1..Len(vars') : vars'[i].name = vars'[j].name => i = j
     /\ \A i \in 1..Len(vars') :
          (vars'[i].integer /\ (i > Len(vars) \/ ~vars[i].integer)) =>
            /\ DeclarationRead
            /\ i > Len(vars)
            /\ \E k \in 1..Len(stmts[line_nr'].names) :
                 stmts[line_nr'].names[k] = vars'[i].name]_vars_all

\* x1, declared integer and bounded below by x1 >= 10, is named by the
\* objective and by a later constraint with a coefficient, and is still one
\* integer variable with the lower bound 10
C22_Witness ==
  /\ pc = "returned"
  /\ error.msg = NoError
  /\ Len(stmts) = 4
  /\ "x1" \in VariablesOf(stmts[1].terms)
  /\ BareBody(stmts[2]) /\ stmts[2].rel2 = ">=" /\ stmts[2].right = "10"
  /\ "x1" \in VariablesOf(stmts[3].terms) /\ ~BareBody(stmts[3])
  /\ "x1" \in DeclaredNames
  /\ Cardinality({i \in 1..Len(vars) : vars[i].name = "x1"}) = 1
  /\ \E i \in 1..Len(vars) :
       /\ vars[i].name = "x1"
       /\ vars[i].integer
       /\ vars[i].lb = <<"fin", 1, 1>>
       /\ IsInf(vars[i].ub)

\* the message is that of the character after an element
AdjacencyError(msg) == Take(msg, 25) = "Unexpected next character"

\* element i is written directly after element i - 1 with a character that is
\* neither whitespace nor a combination sign
JunkAt(terms, i) ==
  /\ i >= 2
  /\ terms[i].sep # ""
  /\ Take(terms[i].sep, 1) # " "

\* the first n elements are read one by one: each is well formed with at most
\* one real sign, set off from the one before it, and no name occurs twice
PrefixReadable(terms, n) ==
  /\ terms[1].sep = ""
  /\ \A j \in 1..n : TermWellFormed(terms[j]) /\ terms[j].real \in {"", "+", "-"}
  /\ \A j \in 2..n : terms[j].sep = " " \/ (terms[j].sep = "" /\ terms[j].comb # "")
  /\ \A j, k \in 1..n : (j # k /\ terms[j].var # "") => terms[j].var # terms[k].var

(***************************************************************************)
(* C23: in an expression scanned, when an element that was read is         *)
(* directly followed by a character that is neither whitespace nor + or -, *)
(* the step raises the error of that character for its line, and no step   *)
(* raises it for an expression without such a place: x|1 + x2, 33.33|x1    *)
(* and 33.33.33x1 are refused.  An expression whose elements are set off   *)
(* by whitespace or a combination sign only is accepted, and every         *)
(* variable gets the coefficient of its own element: x1 x2 is x1 + x2.     *)
(***************************************************************************)
C23_Adjacency ==
  [][ExpressionScanned =>
       LET terms == stmts[line_nr'].terms
       IN /\ \A i \in 2..Len(terms) :
               (JunkAt(terms, i) /\ PrefixReadable(terms, i - 1)) =>
                 /\ pc' = "raised"
                 /\ error' = [msg |-> "Unexpected next character \""
                                      \o Take(terms[i].sep, 1) \o "\"",
                              line_nr |-> line_nr']
          /\ (pc' = "raised" /\ AdjacencyError(error'.msg)) =>
               \E i \in 2..Len(terms) : JunkAt(terms, i)
          /\ BodyReadable(terms) =>
               /\ pc' # "raised"
               /\ ConstraintRead =>
                    CoefficientsAsWritten(constraints'[Len(constraints')].coeffs, terms)
               /\ ObjectiveRead => CoefficientsAsWritten(objective'.coeffs, terms)]_vars_all

\* max: 33.33.33x1 + x2 was refused for the second point
C23_Witness ==
  /\ pc = "raised"
  /\ file = <<"max: 33.33.33x1 + x2;\n">>
  /\ JunkAt(stmts[1].terms, 2)
  /\ error = [msg |-> "Unexpected next character \".\"", line_nr |-> 1]

\* the signs of the element are more than two, or the second is followed by
\* whitespace, or they are followed by no numeral and no name
SignsMalformed(t) ==
  /\ t.comb # ""
  /\ \/ Len(t.real) >= 2
     \/ t.real # "" /\ t.num = "" /\ t.ws # ""
     \/ t.num = "" /\ t.var = ""

\* element i is set off from the one before it
SetOff(terms, i) ==
  IF i = 1 THEN terms[i].sep = ""
  ELSE terms[i].sep = "" \/ {Take(terms[i].sep, 1)} = {" "}

CannotProcessRemainder == "Cannot process remainder coefficients"

(***************************************************************************)
(* C24: in an expression scanned, an element reached by the scan whose     *)
(* signs are three or more (x1 +++x2), whose second sign is followed by    *)
(* whitespace (x1 + + x2, x1 ++ x2), or whose signs are followed by no     *)
(* numeral and no name (x2 +) makes the step raise the error of the        *)
(* remainder it cannot process, for its line.  An element with a           *)
(* combination sign, whitespace, and a real sign directly in front of its  *)
(* numeral or name (x1 + +x2, x1 - -3 x2) is accepted with the product of  *)
(* the two signs.                                                          *)
(***************************************************************************)
C24_Signs ==
  [][ExpressionScanned =>
       LET terms == stmts[line_nr'].terms
       IN /\ \A i \in 1..Len(terms) :
               (/\ SignsMalformed(terms[i])
                /\ SetOff(terms, i)
                /\ i > 1 => PrefixReadable(terms, i - 1)) =>
                 /\ pc' = "raised"
                 /\ error' = [msg |-> CannotProcessRemainder, line_nr |-> line_nr']
          /\ (/\ BodyReadable(terms)
              /\ \E i \in 1..Len(terms) :
                   terms[i].comb # "" /\ terms[i].gap # "" /\ terms[i].real # "") =>
               /\ pc' # "raised"
               /\ ConstraintRead =>
                    CoefficientsAsWritten(constraints'[Len(constraints')].coeffs, terms)
               /\ ObjectiveRead => CoefficientsAsWritten(objective'.coeffs, terms)]_vars_all

\* max: x1 +++x2 was refused at its third sign
C24_Witness ==
  /\ pc = "raised"
  /\ file = <<"max: x1 +++x2;\n">>
  /\ SignsMalformed(stmts[1].terms[2])
  /\ error = [msg |-> CannotProcessRemainder, line_nr |-> 1]

\* the statement of line n is a constraint on the bare variable name
BoundStatementOf(n, name) ==
  /\ stmts[n].kind = "constraint"
  /\ WellShaped(stmts[n])
  /\ BareBody(stmts[n])
  /\ stmts[n].terms[1].var = name

\* the bound of side k (1 lower, 2 upper) that the last bare-variable statement
\* on name up to line n writes on that side; the default when there is none
RECURSIVE LastBound(_, _, _)
LastBound(name, k, n) ==
  IF n <= FirstStatement THEN (IF k = 1 THEN FNeg(Infinity) ELSE Infinity)
  ELSE IF n < RegionStart /\ n <= Len(stmts) /\ BoundStatementOf(n, name)
          /\ ~IsInf(WrittenBounds(stmts[n])[k])
  THEN WrittenBounds(stmts[n])[k]
  ELSE LastBound(name, k, n - 1)

(***************************************************************************)
(* C25: while the constraints are read and when the parse has returned,    *)
(* the upper bound of every variable is the literal of the last            *)
(* bare-variable statement read so far that sets an upper bound for it,    *)
(* and +inf when there is none; likewise the lower bound, with -inf.  An   *)
(* earlier statement does not count, tighter or not: after x1 <= 5 and     *)
(* x1 < 10 the upper bound of x1 is 10.                                    *)
(***************************************************************************)
C25_LastBoundWins ==
  pc \in {"set_objective_function_and_constraints", "returned"} =>
    \A i \in 1..Len(vars) :
      /\ vars[i].lb = LastBound(vars[i].name, 1, line_nr)
      /\ vars[i].ub = LastBound(vars[i].name, 2, line_nr)

\* x1 <= 5 then x1 < 10 returned with the upper bound of x1 at 10
C25_Witness ==
  /\ pc = "returned"
  /\ error.msg = NoError
  /\ Len(stmts) = 3
  /\ BoundStatementOf(2, "x1") /\ stmts[2].rel2 = "<=" /\ stmts[2].right = "5"
  /\ BoundStatementOf(3, "x1") /\ stmts[3].rel2 = "<" /\ stmts[3].right = "10"
  /\ BoundsOf(vars, "x1") = <<FNeg(Infinity), (<<"fin", 1, 1>>)>>

\* line n makes the first pass fail when the pass reaches it: its terminator
\* is missing, it is empty but for its terminator, or it lies in the
\* declarations and is no int statement of valid names not declared before
Pass1Offending(n) ==
  LET Of(s, text) ==
        \/ text # "" /\ ~Terminated(s.tail)
        \/ text = "" /\ Terminated(s.tail)
        \/ text # "" /\ n >= RegionStart /\ ~WellDeclared(s, PriorNames(n))
  IN Of(stmts[n], Strip(Content(stmts[n])))

Pass1Errors == DeclarationErrors \cup {MissingTerminator, EmptyStatement}

\* line n, before the declarations, holds a statement that the second pass
\* accepts
Pass2Accepted(n) ==
  /\ n < RegionStart
  /\ stmts[n].kind # "blank"
  /\ BodyReadable(stmts[n].terms)
  /\ IF n = FirstStatement
     THEN stmts[n].colon # "" /\ stmts[n].head \in {"max", "min"}
     ELSE WellShaped(stmts[n])

\* line n, before the declarations, holds a statement that the second pass
\* refuses
Pass2Offending(n) ==
  /\ n < RegionStart
  /\ stmts[n].kind # "blank"
  /\ \/ VariablesOf(stmts[n].terms) = {}
     \/ Duplicated(stmts[n].terms)
     \/ IF n = FirstStatement
        THEN stmts[n].colon = "" \/ stmts[n].head \notin {"max", "min"}
        ELSE ~WellShaped(stmts[n])

\* the solver as parse_lp_file creates it
Untouched(vs, obj, rows) ==
  /\ vs = <<>>
  /\ rows = <<>>
  /\ obj = [maximization |-> FALSE, coeffs |-> EmptyCoeffs, offset |-> Norm(0, 0)]

(***************************************************************************)
(* C26: the lines are read in order, one per step, and a step that raises  *)
(* reports the line it read; nothing is read after it.  The first pass     *)
(* raises at a line exactly when the line has no terminator, is empty but  *)
(* for its terminator, or is a faulty declaration, and the second pass     *)
(* starts only when no line of the whole file is such a line.  So an error *)
(* raised for a file holding such a line is the error of the first of      *)
(* them, raised before the objective or any constraint was processed,      *)
(* whatever the objective and the constraints on earlier lines are; and    *)
(* any other error raised is that of the second pass for the first line it *)
(* does not accept, no line before it being one it refuses.                *)
(***************************************************************************)
C26_ErrorPrecedence ==
  [][/\ pc \in {"set_declarations", "set_objective_function_and_constraints"}
     /\ line_nr' = line_nr + 1 \/ (line_nr = Len(stmts) /\ pc' # pc /\ pc' # "raised")
     /\ pc' = "raised" => error'.line_nr = line_nr' /\ line_nr' = line_nr + 1
     /\ (pc = "set_declarations" /\ line_nr' = line_nr + 1) =>
          IF Pass1Offending(line_nr')
          THEN pc' = "raised" /\ error'.msg \in Pass1Errors
          ELSE pc' = pc
     /\ pc' = "set_objective_function_and_constraints" =>
          \A n \in 1..Len(stmts) : ~Pass1Offending(n)
     /\ (pc = "set_objective_function_and_constraints" /\ line_nr' = line_nr + 1) =>
          /\ Pass2Offending(line_nr') => pc' = "raised" /\ error'.msg \notin Pass1Errors
          /\ Pass2Accepted(line_nr') => pc' = pc
     /\ pc' = "raised" =>
          IF \E n \in 1..Len(stmts) : Pass1Offending(n)
          THEN /\ Pass1Offending(error'.line_nr)
               /\ \A n \in 1..(error'.line_nr - 1) : ~Pass1Offending(n)
               /\ error'.msg \in Pass1Errors
               /\ Untouched(<<>>, objective', constraints')
          ELSE /\ error'.msg \notin Pass1Errors
               /\ ~Pass2Accepted(error'.line_nr)
               /\ \A n \in 1..(error'.line_nr - 1) : ~Pass2Offending(n)]_vars_all

\* mix:x1 on line 1, x1 <= x2 on line 2 and int x3, x3 on line 3: the error of
\* line 3 was raised
C26_Witness ==
  /\ pc = "raised"
  /\ Len(stmts) = 3
  /\ Pass2Offending(1) /\ stmts[1].head = "mix"
  /\ Pass2Offending(2) /\ stmts[2].right = "x2"
  /\ Pass1Offending(3) /\ stmts[3].names = <<"x3", "x3">>
  /\ error = [msg |-> "declared again", line_nr |-> 3]

\* at the start of remainder there is no sign, no numeral and no name
NothingToConsume(remainder) ==
  /\ SignLen(remainder) = 0
  /\ MantissaExpLen(remainder) = 0
  /\ VarNameStartLen(remainder) = 0

\* the iteration of the loop from the locals st raises or leaves a shorter
\* remainder
Progress(st) ==
  LET After(next) == next.err # NoError \/ Len(next.remainder) < Len(st.remainder)
  IN After(ScanElement(st))

(***************************************************************************)
(* C27: the scan of every fragment ends, by a ValueError or by returning:  *)
(* no run of the loop goes on for ever.  At every entry of the loop body   *)
(* the iteration to come either raises or leaves a remainder strictly      *)
(* shorter than it found; every iteration taken did so, one that found no  *)
(* sign, no numeral and no name at the start of the remainder raised, and  *)
(* the loop is left only with an empty remainder or an error.              *)
(***************************************************************************)
C27_ScanTerminates ==
  /\ []((pc = "set_coefficients" /\ scan.err = NoError /\ Len(scan.remainder) # 0) =>
          Progress(scan))
  /\ [][/\ pc = "set_coefficients"
        /\ \/ pc' = "raised"
           \/ /\ Len(scan.remainder) # 0
              /\ Len(scan'.remainder) < Len(scan.remainder)
              /\ pc' = "set_coefficients"
           \/ Len(scan.remainder) = 0 /\ pc' = "returned"
        /\ (Len(scan.remainder) # 0 /\ NothingToConsume(scan.remainder)) => pc' = "raised"
       ]_vars_all
  /\ <>[][FALSE]_vars_all

\* the fragment x x0 was scanned in two iterations and the loop left with both
\* names found
C27_Witness ==
  /\ pc = "returned"
  /\ scan.err = NoError
  /\ scan.remainder = ""
  /\ scan.var_names_found = {"x", "x0"}
  /\ Len(scan.vars) = 2

====
